---- MODULE Spec2Model ----
(***************************************************************************)
(* HR-management REST API (Cargo = Role, Funcionario = Employee).          *)
(*                                                                         *)
(* One action per HTTP route.  An action runs the whole handler chain of   *)
(* the route as the routers register it: JWT middleware, input-shape       *)
(* middleware, controller, service, DAO, store, and the top-level error    *)
(* responder of Server.js.                                                 *)
(*                                                                         *)
(* Strings are sequences of one-character strings, so that trim(), the     *)
(* regular expressions of the setters and the store's comparison are       *)
(* computed and not assumed.  A JavaScript value is a record               *)
(*   [t |-> "str" | "num" | "undef", s |-> characters, n |-> number].      *)
(***************************************************************************)
EXTENDS Integers, Sequences, FiniteSets, TLC

VARIABLES
    cargo,          \* rows of table Cargo: [idCargo, nomeCargo]
    funcionario,    \* rows of table Funcionario
    aiCargo,        \* AUTO_INCREMENT counter of Cargo.idCargo
    aiFuncionario,  \* AUTO_INCREMENT counter of Funcionario.idFuncionario
    asCreated,      \* ids of the Funcionario rows no statement has touched since their INSERT
    before,         \* both tables as they were when the last request arrived
    route,          \* route of the last request
    hdr,            \* Authorization header read by JwtMiddleware.validateToken
    inp,            \* route parameter and body read by the handlers after it
    calls,          \* handlers and service methods invoked for the last request, in order
    ret,            \* outcome of the service method the last request invoked
    resp,           \* response sent for the last request
    now,            \* the clock the tokens expire by
    held,           \* the token a client got from its login: [has, claims, exp]
    issued,         \* the token gerarToken issued last for that client: [has, claims, exp]
    inflight,       \* the create requests being handled at the same time, one per client
    boot            \* the start of the process: [done, stack, threw, listening]

vars == <<cargo, funcionario, aiCargo, aiFuncionario, asCreated, before, route, hdr, inp, calls, ret, resp,
          now, held, issued, inflight, boot>>

\* The client whose session is followed, and the clock
session == <<now, held, issued>>

(***************************************************************************)
(* Bounds of the model.                                                    *)
(***************************************************************************)
MaxCargoId == 2
MaxFuncionarioId == 2
\* Last tick of the clock
MaxNow == 4

(***************************************************************************)
(* Characters and strings.                                                 *)
(***************************************************************************)
UpperSeq == <<"A","B","C","D","E","F","G","H","I","J","K","L","M",
              "N","O","P","Q","R","S","T","U","V","W","X","Y","Z">>
LowerSeq == <<"a","b","c","d","e","f","g","h","i","j","k","l","m",
              "n","o","p","q","r","s","t","u","v","w","x","y","z">>

Range(f) == {f[i] : i \in DOMAIN f}

\* /\s/
Whitespace == {" "}
\* /[A-Z]/
UpperCase == Range(UpperSeq)
\* /[0-9]/
Digit == {"0","1","2","3","4","5","6","7","8","9"}
\* /[!@#$%^&*(),.?":{}|<>]/
SpecialChar == {"!","@","#","$","%","^","&","*","(",")",",",".","?","\"",":","{","}","|","<",">"}

RECURSIVE TrimStart(_)
TrimStart(s) ==
    IF s = <<>> THEN s
    ELSE IF Head(s) \in Whitespace THEN TrimStart(Tail(s)) ELSE s

RECURSIVE TrimEnd(_)
TrimEnd(s) ==
    IF s = <<>> THEN s
    ELSE IF s[Len(s)] \in Whitespace THEN TrimEnd(SubSeq(s, 1, Len(s) - 1)) ELSE s

\* String.prototype.trim()
Trim(s) == TrimEnd(TrimStart(s))

HasCharIn(s, class) == \E i \in 1..Len(s) : s[i] \in class

\* /^[^\s@]+@[^\s@]+\.[^\s@]+$/
emailRegex(s) ==
    /\ \A i \in 1..Len(s) : s[i] \notin Whitespace
    /\ \E i \in 2..Len(s) :
          /\ s[i] = "@"
          /\ \A j \in 1..Len(s) : s[j] = "@" => j = i
          /\ \E d \in (i + 2)..(Len(s) - 1) : s[d] = "."

(***************************************************************************)
(* JavaScript values.                                                      *)
(***************************************************************************)
Str(s) == [t |-> "str", s |-> s, n |-> 0]
Num(n) == [t |-> "num", s |-> <<>>, n |-> n]
Undefined == [t |-> "undef", s |-> <<>>, n |-> 0]

\* ToBoolean: undefined, "" and 0 are falsy
Truthy(v) ==
    CASE v.t = "str" -> v.s # <<>>
      [] v.t = "num" -> v.n # 0
      [] OTHER -> FALSE

DigitValue(c) == CHOOSE k \in 0..9 : <<"0","1","2","3","4","5","6","7","8","9">>[k + 1] = c

RECURSIVE DigitsValue(_)
DigitsValue(s) ==
    IF s = <<>> THEN 0 ELSE 10 * DigitsValue(SubSeq(s, 1, Len(s) - 1)) + DigitValue(s[Len(s)])

IsDigits(s) == s # <<>> /\ \A i \in 1..Len(s) : s[i] \in Digit

\* Number(value) followed by Number.isInteger(parsed): the integer a value
\* converts to, when it converts to one.
IsIntegerValue(v) ==
    CASE v.t = "num" -> TRUE
      [] v.t = "str" ->
            LET u == Trim(v.s)
            IN  \/ u = <<>>
                \/ IsDigits(u)
                \/ (Len(u) > 1 /\ u[1] \in {"-", "+"} /\ IsDigits(Tail(u)))
      [] OTHER -> FALSE

NumberOf(v) ==
    CASE v.t = "num" -> v.n
      [] v.t = "str" ->
            LET u == Trim(v.s)
            IN  IF u = <<>> THEN 0
                ELSE IF u[1] = "-" THEN 0 - DigitsValue(Tail(u))
                ELSE IF u[1] = "+" THEN DigitsValue(Tail(u))
                ELSE DigitsValue(u)
      [] OTHER -> 0

(***************************************************************************)
(* Outcomes of a call: a value, an ErrorResponse, or a plain Error.        *)
(***************************************************************************)
\* `const name = value; ...`: the value is computed once and then named
Bind(value, Rest(_)) == Rest(value)

Ok(v) == [k |-> "ok", v |-> v]
ErrorResponse(httpCode, message, detail) ==
    [k |-> "ErrorResponse", httpCode |-> httpCode, message |-> message, detail |-> detail]
Error(message) ==
    [k |-> "Error", httpCode |-> 0, message |-> message, detail |-> ""]
Failed(r) == r.k # "ok"

(***************************************************************************)
(* Value objects: the validating setters of Cargo and Funcionario.  A      *)
(* setter yields the value it stores, or the Error it throws.              *)
(***************************************************************************)
\* Maximum length of nomeCargo
MaxNomeCargo == 64
\* Minimum length of nomeCargo and nomeFuncionario
MinNome == 3
\* Minimum length of senha
MinSenha == 6

\* Cargo.set idCargo
Cargo_set_idCargo(value) ==
    IF ~IsIntegerValue(value) THEN Error("idCargo deve ser um numero inteiro.")
    ELSE IF NumberOf(value) <= 0 THEN Error("idCargo deve ser maior que zero.")
    ELSE Ok(NumberOf(value))

\* Cargo.set nomeCargo
Cargo_set_nomeCargo(value) ==
    IF value.t # "str" THEN Error("nomeCargo deve ser uma string.")
    ELSE LET nome == Trim(value.s)
         IN  IF Len(nome) < MinNome THEN Error("nomeCargo deve ter pelo menos 3 caracteres.")
             ELSE IF Len(nome) > MaxNomeCargo THEN Error("nomeCargo deve ter no maximo 64 caracteres.")
             ELSE Ok(nome)

\* Funcionario.set idFuncionario
Funcionario_set_idFuncionario(valor) ==
    IF ~IsIntegerValue(valor) THEN Error("idFuncionario deve ser um numero inteiro.")
    ELSE IF NumberOf(valor) <= 0 THEN Error("idFuncionario deve ser um numero inteiro positivo.")
    ELSE Ok(NumberOf(valor))

\* Funcionario.set nomeFuncionario
Funcionario_set_nomeFuncionario(value) ==
    IF value.t # "str" THEN Error("nomeFuncionario deve ser uma string.")
    ELSE LET nome == Trim(value.s)
         IN  IF Len(nome) < MinNome THEN Error("nomeFuncionario deve ter pelo menos 3 caracteres.")
             ELSE Ok(nome)

\* Funcionario.set email
Funcionario_set_email(value) ==
    IF value.t # "str" THEN Error("email deve ser uma string.")
    ELSE LET emailTrimmed == Trim(value.s)
         IN  IF emailTrimmed = <<>> THEN Error("email nao pode ser vazio.")
             ELSE IF ~emailRegex(emailTrimmed) THEN Error("email em formato invalido.")
             ELSE Ok(emailTrimmed)

\* set senha, were it without the test for a special character
Funcionario_set_senha_NoSpecialChar(value) ==
    IF value.t # "str" THEN Error("senha deve ser uma string.")
    ELSE LET senhaTrimmed == Trim(value.s)
         IN  IF senhaTrimmed = <<>> THEN Error("senha nao pode ser vazia.")
             ELSE IF Len(senhaTrimmed) < MinSenha THEN Error("senha deve ter pelo menos 6 caracteres.")
             ELSE IF ~HasCharIn(senhaTrimmed, UpperCase) THEN Error("senha deve conter pelo menos uma letra maiuscula.")
             ELSE IF ~HasCharIn(senhaTrimmed, Digit) THEN Error("senha deve conter pelo menos um numero.")
             ELSE Ok(senhaTrimmed)

\* Funcionario.set senha
Funcionario_set_senha(value) ==
    IF value.t # "str" THEN Error("senha deve ser uma string.")
    ELSE LET senhaTrimmed == Trim(value.s)
         IN  IF senhaTrimmed = <<>> THEN Error("senha nao pode ser vazia.")
             ELSE IF Len(senhaTrimmed) < MinSenha THEN Error("senha deve ter pelo menos 6 caracteres.")
             ELSE IF ~HasCharIn(senhaTrimmed, UpperCase) THEN Error("senha deve conter pelo menos uma letra maiuscula.")
             ELSE IF ~HasCharIn(senhaTrimmed, Digit) THEN Error("senha deve conter pelo menos um numero.")
             ELSE IF ~HasCharIn(senhaTrimmed, SpecialChar) THEN Error("senha deve conter pelo menos um caractere especial.")
             ELSE Ok(senhaTrimmed)

\* Funcionario.set recebeValeTransporte: [0, 1].includes(value)
Funcionario_set_recebeValeTransporte(value) ==
    IF ~(value.t = "num" /\ value.n \in {0, 1}) THEN Error("recebeValeTransporte deve ser 0 ou 1.")
    ELSE Ok(value.n)

(***************************************************************************)
(* bcrypt, as the DAO uses it.  The digest is a string that differs from   *)
(* every plaintext it is computed from; compare() recomputes it.           *)
(***************************************************************************)
bcrypt_hash(plain) == <<"$", "2", "b", "$">> \o plain
bcrypt_compare(plain, digest) == digest = bcrypt_hash(plain)

(***************************************************************************)
(* The store: schema gestao_rh of docs/Banco.sql.  D is the record         *)
(* [cargo, funcionario, aiCargo, aiFuncionario].  A statement yields       *)
(* [db |-> the store after it, out |-> its result or the Error it raises]. *)
(***************************************************************************)
ToLower(c) == IF \E i \in 1..26 : UpperSeq[i] = c
              THEN LowerSeq[CHOOSE i \in 1..26 : UpperSeq[i] = c]
              ELSE c

\* DEFAULT CHARACTER SET utf8: the columns compare under utf8_general_ci,
\* which ignores letter case and trailing spaces.
CollEq(a, b) ==
    LET x == TrimEnd(a)
        y == TrimEnd(b)
    IN  /\ Len(x) = Len(y)
        /\ \A i \in 1..Len(x) : ToLower(x[i]) = ToLower(y[i])

\* INSERT INTO cargo, were the table without nomeCargo_UNIQUE
Sql_InsertCargo_NoUniqueIndex(D, nomeCargo) ==
    [db |-> [D EXCEPT !.cargo = @ \cup {[idCargo |-> D.aiCargo, nomeCargo |-> nomeCargo]},
                      !.aiCargo = @ + 1],
     out |-> Ok([insertId |-> D.aiCargo])]

\* INSERT INTO cargo (nomeCargo) VALUES (?)
\* UNIQUE INDEX nomeCargo_UNIQUE; idCargo AUTO_INCREMENT
Sql_InsertCargo(D, nomeCargo) ==
    IF \E r \in D.cargo : CollEq(r.nomeCargo, nomeCargo)
    THEN [db |-> [D EXCEPT !.aiCargo = @ + 1], out |-> Error("ER_DUP_ENTRY")]
    ELSE [db |-> [D EXCEPT !.cargo = @ \cup {[idCargo |-> D.aiCargo, nomeCargo |-> nomeCargo]},
                           !.aiCargo = @ + 1],
          out |-> Ok([insertId |-> D.aiCargo])]

\* UPDATE cargo, were the table without nomeCargo_UNIQUE
Sql_UpdateCargo_NoUniqueIndex(D, nomeCargo, idCargo) ==
    LET hit == {r \in D.cargo : r.idCargo = idCargo}
    IN  IF hit = {} THEN [db |-> D, out |-> Ok([affectedRows |-> 0])]
        ELSE [db |-> [D EXCEPT !.cargo = (@ \ hit) \cup
                                   {[idCargo |-> idCargo, nomeCargo |-> nomeCargo]}],
              out |-> Ok([affectedRows |-> Cardinality(hit)])]

\* UPDATE cargo SET nomeCargo = ? WHERE idCargo = ?
Sql_UpdateCargo(D, nomeCargo, idCargo) ==
    LET hit == {r \in D.cargo : r.idCargo = idCargo}
    IN  IF hit = {} THEN [db |-> D, out |-> Ok([affectedRows |-> 0])]
        ELSE IF \E r \in D.cargo \ hit : CollEq(r.nomeCargo, nomeCargo)
        THEN [db |-> D, out |-> Error("ER_DUP_ENTRY")]
        ELSE [db |-> [D EXCEPT !.cargo = (@ \ hit) \cup
                                   {[idCargo |-> idCargo, nomeCargo |-> nomeCargo]}],
              out |-> Ok([affectedRows |-> Cardinality(hit)])]

\* DELETE FROM cargo, were Funcionario without fk_Funcionario_Cargo
Sql_DeleteCargo_NoForeignKey(D, idCargo) ==
    LET hit == {r \in D.cargo : r.idCargo = idCargo}
    IN  [db |-> [D EXCEPT !.cargo = @ \ hit],
         out |-> Ok([affectedRows |-> Cardinality(hit)])]

\* DELETE FROM cargo WHERE idCargo = ?
\* fk_Funcionario_Cargo ... ON DELETE NO ACTION
Sql_DeleteCargo(D, idCargo) ==
    LET hit == {r \in D.cargo : r.idCargo = idCargo}
    IN  IF hit # {} /\ \E f \in D.funcionario : f.Cargo_idCargo = idCargo
        THEN [db |-> D, out |-> Error("ER_ROW_IS_REFERENCED_2")]
        ELSE [db |-> [D EXCEPT !.cargo = @ \ hit],
              out |-> Ok([affectedRows |-> Cardinality(hit)])]

\* SELECT * FROM cargo WHERE ${field} = ?
Sql_SelectCargo(D, field, value) ==
    IF field = "idCargo" THEN {r \in D.cargo : r.idCargo = value}
    ELSE {r \in D.cargo : CollEq(r.nomeCargo, value)}

\* INSERT INTO funcionario (...) VALUES (?, ?, ?, ?, ?)
\* fk_Funcionario_Cargo; no unique index on email; idFuncionario AUTO_INCREMENT
Sql_InsertFuncionario(D, nomeFuncionario, email, senha, recebeValeTransporte, idCargo) ==
    IF ~\E r \in D.cargo : r.idCargo = idCargo
    THEN [db |-> [D EXCEPT !.aiFuncionario = @ + 1], out |-> Error("ER_NO_REFERENCED_ROW_2")]
    ELSE [db |-> [D EXCEPT !.funcionario = @ \cup
                               {[idFuncionario |-> D.aiFuncionario,
                                 nomeFuncionario |-> nomeFuncionario,
                                 email |-> email,
                                 senha |-> senha,
                                 recebeValeTransporte |-> recebeValeTransporte,
                                 Cargo_idCargo |-> idCargo]},
                           !.aiFuncionario = @ + 1],
          out |-> Ok([insertId |-> D.aiFuncionario])]

\* UPDATE funcionario SET nomeFuncionario=?, email=?, senha=?,
\*        recebeValeTransporte=?, Cargo_idCargo=? WHERE idFuncionario=?
Sql_UpdateFuncionario(D, nomeFuncionario, email, senha, recebeValeTransporte, idCargo, idFuncionario) ==
    LET hit == {r \in D.funcionario : r.idFuncionario = idFuncionario}
    IN  IF hit = {} THEN [db |-> D, out |-> Ok([affectedRows |-> 0])]
        ELSE IF ~\E r \in D.cargo : r.idCargo = idCargo
        THEN [db |-> D, out |-> Error("ER_NO_REFERENCED_ROW_2")]
        ELSE [db |-> [D EXCEPT !.funcionario = (@ \ hit) \cup
                                   {[idFuncionario |-> idFuncionario,
                                     nomeFuncionario |-> nomeFuncionario,
                                     email |-> email,
                                     senha |-> senha,
                                     recebeValeTransporte |-> recebeValeTransporte,
                                     Cargo_idCargo |-> idCargo]}],
              out |-> Ok([affectedRows |-> Cardinality(hit)])]

\* DELETE FROM funcionario, were the statement to lack its WHERE clause
Sql_DeleteFuncionario_NoWhere(D, idFuncionario) ==
    [db |-> [D EXCEPT !.funcionario = {}],
     out |-> Ok([affectedRows |-> Cardinality(D.funcionario)])]

\* DELETE FROM funcionario WHERE idFuncionario = ?
Sql_DeleteFuncionario(D, idFuncionario) ==
    LET hit == {r \in D.funcionario : r.idFuncionario = idFuncionario}
    IN  [db |-> [D EXCEPT !.funcionario = @ \ hit],
         out |-> Ok([affectedRows |-> Cardinality(hit)])]

\* SELECT * FROM funcionario WHERE ${field} = ?
Sql_SelectFuncionario(D, field, value) ==
    IF field = "idFuncionario" THEN {r \in D.funcionario : r.idFuncionario = value}
    ELSE {r \in D.funcionario : CollEq(r.email, value)}

\* SELECT ... FROM funcionario JOIN cargo ON cargo.idCargo = funcionario.Cargo_idCargo
Sql_JoinCargo(D, rows) ==
    {[idFuncionario |-> f.idFuncionario,
      nomeFuncionario |-> f.nomeFuncionario,
      email |-> f.email,
      senha |-> f.senha,
      recebeValeTransporte |-> f.recebeValeTransporte,
      idCargo |-> c.idCargo,
      nomeCargo |-> c.nomeCargo] : <<f, c>> \in {p \in rows \X D.cargo : p[1].Cargo_idCargo = p[2].idCargo}}

(***************************************************************************)
(* CargoDAO and FuncionarioDAO.                                            *)
(***************************************************************************)
\* CargoDAO.create
CargoDAO_create(D, nomeCargo) ==
    LET r == Sql_InsertCargo(D, nomeCargo)
    IN  IF Failed(r.out) THEN r
        ELSE IF r.out.v.insertId = 0 THEN [db |-> r.db, out |-> Error("Falha ao inserir cargo")]
        ELSE [db |-> r.db, out |-> Ok(r.out.v.insertId)]

\* CargoDAO.delete
CargoDAO_delete(D, idCargo) ==
    LET r == Sql_DeleteCargo(D, idCargo)
    IN  IF Failed(r.out) THEN r ELSE [db |-> r.db, out |-> Ok(r.out.v.affectedRows > 0)]

\* CargoDAO.update
CargoDAO_update(D, idCargo, nomeCargo) ==
    LET r == Sql_UpdateCargo(D, nomeCargo, idCargo)
    IN  IF Failed(r.out) THEN r ELSE [db |-> r.db, out |-> Ok(r.out.v.affectedRows > 0)]

\* CargoDAO.findAll
CargoDAO_findAll(D) == D.cargo

\* CargoDAO.findByField, for the fields the services pass
CargoDAO_findByField(D, field, value) == Sql_SelectCargo(D, field, value)

\* CargoDAO.findById: resultado[0] || null, as the set of at most one row
CargoDAO_findById(D, idCargo) == CargoDAO_findByField(D, "idCargo", idCargo)

\* FuncionarioDAO.create: the digest is written through the senha setter
FuncionarioDAO_create(D, obj) ==
    LET senha == Funcionario_set_senha(Str(bcrypt_hash(obj.senha)))
    IN  IF Failed(senha) THEN [db |-> D, out |-> senha]
        ELSE LET r == Sql_InsertFuncionario(D, obj.nomeFuncionario, obj.email, senha.v,
                                            obj.recebeValeTransporte, obj.idCargo)
             IN  IF Failed(r.out) THEN r
                 ELSE IF r.out.v.insertId = 0
                 THEN [db |-> r.db, out |-> Error("Falha ao inserir funcionario")]
                 ELSE [db |-> r.db, out |-> Ok(r.out.v.insertId)]

\* FuncionarioDAO.delete
FuncionarioDAO_delete(D, idFuncionario) ==
    LET r == Sql_DeleteFuncionario(D, idFuncionario)
    IN  [db |-> r.db, out |-> Ok(r.out.v.affectedRows > 0)]

\* FuncionarioDAO.update, were it to write the password as supplied
FuncionarioDAO_update_Plaintext(D, obj) ==
    LET r == Sql_UpdateFuncionario(D, obj.nomeFuncionario, obj.email, obj.senha,
                                   obj.recebeValeTransporte, obj.idCargo, obj.idFuncionario)
    IN  IF Failed(r.out) THEN r ELSE [db |-> r.db, out |-> Ok(r.out.v.affectedRows > 0)]

\* FuncionarioDAO.update: the branch without senha keeps the stored digest
FuncionarioDAO_update(D, obj) ==
    LET old == {r \in D.funcionario : r.idFuncionario = obj.idFuncionario}
        senhaHash == IF obj.senha # <<>> THEN bcrypt_hash(obj.senha)
                     ELSE IF old = {} THEN <<>>
                     ELSE (CHOOSE r \in old : TRUE).senha
        r == Sql_UpdateFuncionario(D, obj.nomeFuncionario, obj.email, senhaHash,
                                   obj.recebeValeTransporte, obj.idCargo, obj.idFuncionario)
    IN  IF Failed(r.out) THEN r ELSE [db |-> r.db, out |-> Ok(r.out.v.affectedRows > 0)]

\* FuncionarioDAO.findByField: SELECT * (every column, senha included)
FuncionarioDAO_findByField(D, field, value) == Sql_SelectFuncionario(D, field, value)

\* FuncionarioDAO.findById
FuncionarioDAO_findById(D, idFuncionario) ==
    FuncionarioDAO_findByField(D, "idFuncionario", idFuncionario)

\* FuncionarioDAO.findAll: the join, without the senha column
FuncionarioDAO_findAll(D) ==
    {[idFuncionario |-> j.idFuncionario,
      nomeFuncionario |-> j.nomeFuncionario,
      email |-> j.email,
      recebeValeTransporte |-> j.recebeValeTransporte,
      cargo |-> [idCargo |-> j.idCargo, nomeCargo |-> j.nomeCargo]] :
        j \in Sql_JoinCargo(D, D.funcionario)}

\* FuncionarioDAO.login, were it to skip bcrypt.compare
FuncionarioDAO_login_NoCompare(D, email, senha) ==
    LET resultado == Sql_JoinCargo(D, Sql_SelectFuncionario(D, "email", email))
    IN  IF Cardinality(resultado) # 1 THEN Ok({})
        ELSE LET funcionarioDB == CHOOSE j \in resultado : TRUE
             IN  Ok({[idFuncionario |-> funcionarioDB.idFuncionario,
                      nomeFuncionario |-> funcionarioDB.nomeFuncionario,
                      email |-> funcionarioDB.email,
                      recebeValeTransporte |-> funcionarioDB.recebeValeTransporte,
                      cargo |-> [idCargo |-> funcionarioDB.idCargo,
                                 nomeCargo |-> funcionarioDB.nomeCargo]]})

\* FuncionarioDAO.login: null is Ok of the empty set
FuncionarioDAO_login(D, email, senha) ==
    Bind(Sql_JoinCargo(D, Sql_SelectFuncionario(D, "email", email)), LAMBDA resultado :
        IF Cardinality(resultado) # 1 THEN Ok({})
        ELSE LET funcionarioDB == CHOOSE j \in resultado : TRUE
                 idCargo == Cargo_set_idCargo(Num(funcionarioDB.idCargo))
                 nomeCargo == Cargo_set_nomeCargo(Str(funcionarioDB.nomeCargo))
                 idFuncionario == Funcionario_set_idFuncionario(Num(funcionarioDB.idFuncionario))
                 nomeFuncionario == Funcionario_set_nomeFuncionario(Str(funcionarioDB.nomeFuncionario))
                 emailDB == Funcionario_set_email(Str(funcionarioDB.email))
                 vale == Funcionario_set_recebeValeTransporte(Num(funcionarioDB.recebeValeTransporte))
             IN  IF ~bcrypt_compare(senha, funcionarioDB.senha) THEN Ok({})
                 ELSE IF Failed(idCargo) THEN idCargo
                 ELSE IF Failed(nomeCargo) THEN nomeCargo
                 ELSE IF Failed(idFuncionario) THEN idFuncionario
                 ELSE IF Failed(nomeFuncionario) THEN nomeFuncionario
                 ELSE IF Failed(emailDB) THEN emailDB
                 ELSE IF Failed(vale) THEN vale
                 ELSE Ok({[idFuncionario |-> idFuncionario.v,
                           nomeFuncionario |-> nomeFuncionario.v,
                           email |-> emailDB.v,
                           recebeValeTransporte |-> vale.v,
                           cargo |-> [idCargo |-> idCargo.v, nomeCargo |-> nomeCargo.v]]}))

(***************************************************************************)
(* MeuTokenJWT: signed, expiring tokens.  A header is the record           *)
(* [shape, sig, expired, claims]; shape is "absent", "malformed" or        *)
(* "bearer", sig names the secret the token was signed with.               *)
(***************************************************************************)
\* MeuTokenJWT.gerarToken
gerarToken(claims) == [shape |-> "bearer", sig |-> "server", expired |-> FALSE, claims |-> claims]

\* MeuTokenJWT.validarToken
validarToken(authorization) ==
    /\ authorization.shape = "bearer"
    /\ authorization.sig = "server"
    /\ ~authorization.expired

\* The fixed expiration window of a token, in ticks of the clock
TokenTtl == 2

\* The token of a header gerarToken produced at the given time
IssuedAt(authorization, time) ==
    [has |-> TRUE, claims |-> authorization.claims, exp |-> time + TokenTtl]

\* The Authorization header that carries a token at the given time
Bearer(token, time) ==
    [shape |-> "bearer", sig |-> "server", expired |-> time >= token.exp, claims |-> token.claims]

(***************************************************************************)
(* CargoService.                                                           *)
(***************************************************************************)
\* createCargo, were it to persist without the lookup by name
CargoService_createCargo_NoLookup(D, cargoJson) ==
    LET nomeCargo == Cargo_set_nomeCargo(cargoJson.nomeCargo)
    IN  IF Failed(nomeCargo) THEN [db |-> D, out |-> nomeCargo]
        ELSE CargoDAO_create(D, nomeCargo.v)

\* CargoService.createCargo
CargoService_createCargo(D, cargoJson) ==
    LET nomeCargo == Cargo_set_nomeCargo(cargoJson.nomeCargo)
    IN  IF Failed(nomeCargo) THEN [db |-> D, out |-> nomeCargo]
        ELSE LET resultado == CargoDAO_findByField(D, "nomeCargo", nomeCargo.v)
             IN  IF Cardinality(resultado) > 0
                 THEN [db |-> D, out |-> ErrorResponse(400, "Cargo ja existe", "O cargo ja existe")]
                 ELSE CargoDAO_create(D, nomeCargo.v)

\* CargoService.findAll
CargoService_findAll(D) == [db |-> D, out |-> Ok(CargoDAO_findAll(D))]

\* CargoService.findById
CargoService_findById(D, idCargo) ==
    LET id == Cargo_set_idCargo(idCargo)
    IN  IF Failed(id) THEN [db |-> D, out |-> id]
        ELSE [db |-> D, out |-> Ok(CargoDAO_findById(D, id.v))]

\* updateCargo, were it to write before it validates the name
CargoService_updateCargo_WriteFirst(D, idCargo, nomeCargo) ==
    LET id == Cargo_set_idCargo(idCargo)
        nome == Cargo_set_nomeCargo(nomeCargo)
    IN  IF Failed(id) THEN [db |-> D, out |-> id]
        ELSE LET r == CargoDAO_update(D, id.v, Trim(nomeCargo.s))
             IN  IF Failed(nome) THEN [db |-> r.db, out |-> nome] ELSE r

\* CargoService.updateCargo
CargoService_updateCargo(D, idCargo, nomeCargo) ==
    LET id == Cargo_set_idCargo(idCargo)
        nome == Cargo_set_nomeCargo(nomeCargo)
    IN  IF Failed(id) THEN [db |-> D, out |-> id]
        ELSE IF Failed(nome) THEN [db |-> D, out |-> nome]
        ELSE CargoDAO_update(D, id.v, nome.v)

\* CargoService.deleteCargo
CargoService_deleteCargo(D, idCargo) ==
    LET id == Cargo_set_idCargo(idCargo)
    IN  IF Failed(id) THEN [db |-> D, out |-> id]
        ELSE CargoDAO_delete(D, id.v)

(***************************************************************************)
(* FuncionarioService.                                                     *)
(***************************************************************************)
\* The value object the services build: every setter in the order of the
\* code, stopping at the first that throws.
NewFuncionario(json) ==
    LET idCargo == Cargo_set_idCargo(json.cargo.idCargo)
        nomeFuncionario == Funcionario_set_nomeFuncionario(json.nomeFuncionario)
        email == Funcionario_set_email(json.email)
        senha == Funcionario_set_senha(json.senha)
        vale == Funcionario_set_recebeValeTransporte(json.recebeValeTransporte)
    IN  IF Failed(idCargo) THEN idCargo
        ELSE IF Failed(nomeFuncionario) THEN nomeFuncionario
        ELSE IF Failed(email) THEN email
        ELSE IF Failed(senha) THEN senha
        ELSE IF Failed(vale) THEN vale
        ELSE Ok([idFuncionario |-> 0,
                 nomeFuncionario |-> nomeFuncionario.v,
                 email |-> email.v,
                 senha |-> senha.v,
                 recebeValeTransporte |-> vale.v,
                 idCargo |-> idCargo.v])

\* A call of an async function yields a Promise; await unwraps it.  An
\* awaited value is [promise |-> FALSE, value |-> ...].
Promise(value) == [promise |-> TRUE, value |-> value]
Await(p) == [promise |-> FALSE, value |-> p.value]

\* x.length: the number of rows of an array, undefined on a Promise
LengthOf(x) == IF x.promise THEN Undefined ELSE Num(Cardinality(x.value))

\* if (x): a Promise is an object, hence truthy
Test(x) == x.promise \/ x.value = TRUE

\* a == b and a > b, for the operands the services compare
LooseEquals(a, b) == a.t = b.t /\ a.n = b.n /\ a.s = b.s
GreaterThan(a, b) == a.t = "num" /\ b.t = "num" /\ a.n > b.n

\* `const cargoExiste = this.#cargoDAO.findByField("idCargo", ...)`: the call
\* is not awaited, so cargoExiste is the Promise itself.
cargoExiste(D, idCargo) == Promise(CargoDAO_findByField(D, "idCargo", idCargo))

\* emailExiste, were the lookup not awaited
emailExiste_NotAwaited(D, email) == Promise(FuncionarioDAO_findByField(D, "email", email))

\* `const emailExiste = await this.#funcionarioDAO.findByField("email", ...)`
emailExiste(D, email) == Await(Promise(FuncionarioDAO_findByField(D, "email", email)))

\* FuncionarioService.createFuncionario
FuncionarioService_createFuncionario(D, jsonFuncionario) ==
    Bind(NewFuncionario(jsonFuncionario), LAMBDA obj :
        IF Failed(obj) THEN [db |-> D, out |-> obj]
        ELSE IF LooseEquals(LengthOf(cargoExiste(D, obj.v.idCargo)), Num(0))
        THEN [db |-> D, out |-> ErrorResponse(400, "O cargo informado nao existe",
                                              "O email ja esta cadastrado")]
        ELSE IF GreaterThan(LengthOf(emailExiste(D, obj.v.email)), Num(0))
        THEN [db |-> D, out |-> ErrorResponse(400, "Ja existe um Funcionario com o email fornecido",
                                              "O email ja esta cadastrado")]
        ELSE Bind(FuncionarioDAO_create(D, obj.v), LAMBDA r :
                 IF Failed(r.out) THEN r
                 ELSE [db |-> r.db, out |-> Ok([obj.v EXCEPT !.idFuncionario = r.out.v,
                                                            !.senha = bcrypt_hash(obj.v.senha)])]))

\* loginFuncionario, were it to answer an unknown email with an error of its own
FuncionarioService_loginFuncionario_TellsApart(D, jsonFuncionario) ==
    LET email == Funcionario_set_email(jsonFuncionario.email)
        senha == Funcionario_set_senha(jsonFuncionario.senha)
    IN  IF Failed(email) THEN [db |-> D, out |-> email]
        ELSE IF FuncionarioDAO_findByField(D, "email", email.v) = {}
        THEN [db |-> D, out |-> ErrorResponse(404, "Usuario nao cadastrado",
                                              "Nao foi possivel realizar autenticacao")]
        ELSE IF Failed(senha) THEN [db |-> D, out |-> senha]
        ELSE [db |-> D, out |-> ErrorResponse(401, "Usuario ou senha invalidos",
                                              "Nao foi possivel realizar autenticacao")]

\* FuncionarioService.loginFuncionario
FuncionarioService_loginFuncionario(D, jsonFuncionario) ==
    LET email == Funcionario_set_email(jsonFuncionario.email)
        senha == Funcionario_set_senha(jsonFuncionario.senha)
    IN  IF Failed(email) THEN [db |-> D, out |-> email]
        ELSE IF Failed(senha) THEN [db |-> D, out |-> senha]
        ELSE Bind(FuncionarioDAO_login(D, email.v, senha.v), LAMBDA encontrado :
                 IF Failed(encontrado) THEN [db |-> D, out |-> encontrado]
                 ELSE IF encontrado.v = {}
                 THEN [db |-> D, out |-> ErrorResponse(401, "Usuario ou senha invalidos",
                                                       "Nao foi possivel realizar autenticacao")]
                 ELSE LET e == CHOOSE x \in encontrado.v : TRUE
                          user == [email |-> e.email,
                                   role |-> e.cargo.nomeCargo,
                                   name |-> e.nomeFuncionario,
                                   idFuncionario |-> e.idFuncionario]
                      IN  [db |-> D, out |-> Ok([user |-> user, token |-> gerarToken(user)])])

\* FuncionarioService.findAll
FuncionarioService_findAll(D) == [db |-> D, out |-> Ok(FuncionarioDAO_findAll(D))]

\* FuncionarioService.findById
FuncionarioService_findById(D, idFuncionario) ==
    LET id == Funcionario_set_idFuncionario(idFuncionario)
    IN  IF Failed(id) THEN [db |-> D, out |-> id]
        ELSE LET found == FuncionarioDAO_findById(D, id.v)
             IN  IF found = {}
                 THEN [db |-> D, out |-> ErrorResponse(404, "Funcionario nao encontrado",
                                                       "Nao existe funcionario com id")]
                 ELSE [db |-> D, out |-> Ok(found)]

\* FuncionarioService.updateFuncionario
FuncionarioService_updateFuncionario(D, idFuncionario, jsonFuncionario) ==
    Bind(NewFuncionario(jsonFuncionario), LAMBDA obj :
    LET idCargo == Cargo_set_idCargo(jsonFuncionario.cargo.idCargo)
        id == Funcionario_set_idFuncionario(idFuncionario)
    IN  IF Failed(idCargo) THEN [db |-> D, out |-> idCargo]
        ELSE IF Failed(id) THEN [db |-> D, out |-> id]
        ELSE IF Failed(obj) THEN [db |-> D, out |-> obj]
        ELSE FuncionarioDAO_update(D, [obj.v EXCEPT !.idFuncionario = id.v]))

\* FuncionarioService.deleteFuncionario
FuncionarioService_deleteFuncionario(D, idFuncionario) ==
    LET id == Funcionario_set_idFuncionario(idFuncionario)
    IN  IF Failed(id) THEN [db |-> D, out |-> id]
        ELSE FuncionarioDAO_delete(D, id.v)

(***************************************************************************)
(* HTTP layer.  A request is [authorization, id, body].  A handler yields  *)
(*   kind   "next" (it called next()), "sent" (it answered) or "throw"     *)
(*          (it threw, or called next(error)),                             *)
(*   db     the store after it,                                            *)
(*   req    the request as it leaves it,                                   *)
(*   resp   the response it sent,        err  the error it raised,         *)
(*   called the service methods it invoked,                                *)
(*   ret    the outcome of the service method it invoked.                  *)
(***************************************************************************)
NoResp == [status |-> 0, success |-> FALSE, message |-> "", detail |-> "", stack |-> FALSE,
           unhandledRejection |-> FALSE, data |-> <<>>]
NoRet == [k |-> "none"]

Json(status, success, message, data) ==
    [NoResp EXCEPT !.status = status, !.success = success, !.message = message, !.data = data]

CallNext(D, req) ==
    [kind |-> "next", db |-> D, req |-> req, resp |-> NoResp, err |-> NoRet, called |-> <<>>, ret |-> NoRet]
Sent(D, req, response, called, outcome) ==
    [kind |-> "sent", db |-> D, req |-> req, resp |-> response, err |-> NoRet, called |-> called, ret |-> outcome]
Throw(D, req, err, called, outcome) ==
    [kind |-> "throw", db |-> D, req |-> req, resp |-> NoResp, err |-> err, called |-> called, ret |-> outcome]

\* The error-handling middleware Server.setupErrorMiddleware registers
errorHandler(error) ==
    IF error.k = "ErrorResponse"
    THEN [NoResp EXCEPT !.status = error.httpCode, !.message = error.message, !.detail = error.detail]
    ELSE [NoResp EXCEPT !.status = 500, !.message = "Ocorreu um erro interno no servidor",
                        !.detail = error.message, !.stack = TRUE]

\* validateToken, were it to call next() whatever the header
JwtMiddleware_validateToken_AlwaysNext(D, req) == CallNext(D, req)

\* JwtMiddleware.validateToken
JwtMiddleware_validateToken(D, req) ==
    IF validarToken(req.authorization) = TRUE
    THEN LET payload == req.authorization.claims
             obj == [email |-> payload.email, role |-> payload.role, name |-> payload.name]
         IN  CallNext(D, [req EXCEPT !.authorization = gerarToken(obj)])
    ELSE Sent(D, req, [NoResp EXCEPT !.status = 401, !.message = "token invalido"], <<>>, NoRet)

ErroValidacao(detail) == ErrorResponse(400, "Erro na validacao de dados", detail)

\* CargoMiddleware.validateBody
CargoMiddleware_validateBody(D, req) ==
    LET cargoBody == req.body
    IN  IF ~cargoBody.has
        THEN Throw(D, req, ErroValidacao("O campo 'cargo' e obrigatorio!"), <<>>, NoRet)
        ELSE IF ~Truthy(cargoBody.nomeCargo)
        THEN Throw(D, req, ErroValidacao("O campo 'nomeCargo' e obrigatorio!"), <<>>, NoRet)
        ELSE IF cargoBody.nomeCargo.t # "str"
        THEN Throw(D, req, Error("cargo.nomeCargo.trim is not a function"), <<>>, NoRet)
        ELSE IF Trim(cargoBody.nomeCargo.s) = <<>>
        THEN Throw(D, req, ErroValidacao("O campo 'nomeCargo' e obrigatorio!"), <<>>, NoRet)
        ELSE CallNext(D, req)

\* CargoMiddleware.validateIdParam
CargoMiddleware_validateIdParam(D, req) ==
    IF ~Truthy(req.id)
    THEN Throw(D, req, ErroValidacao("O parametro 'idCargo' e obrigatorio!"), <<>>, NoRet)
    ELSE CallNext(D, req)

\* funcionario[campo] === undefined || === null || === ""
CampoAusente(v) == v.t = "undef" \/ (v.t = "str" /\ v.s = <<>>)

\* FuncionarioMiddleware.validateCreateBody
FuncionarioMiddleware_validateCreateBody(D, req) ==
    LET f == req.body
    IN  IF ~f.has
        THEN Throw(D, req, ErroValidacao("O campo 'funcionario' e obrigatorio!"), <<>>, NoRet)
        ELSE IF CampoAusente(f.nomeFuncionario)
        THEN Throw(D, req, ErroValidacao("O campo 'nomeFuncionario' e obrigatorio!"), <<>>, NoRet)
        ELSE IF CampoAusente(f.email)
        THEN Throw(D, req, ErroValidacao("O campo 'email' e obrigatorio!"), <<>>, NoRet)
        ELSE IF CampoAusente(f.senha)
        THEN Throw(D, req, ErroValidacao("O campo 'senha' e obrigatorio!"), <<>>, NoRet)
        ELSE IF CampoAusente(f.recebeValeTransporte)
        THEN Throw(D, req, ErroValidacao("O campo 'recebeValeTransporte' e obrigatorio!"), <<>>, NoRet)
        ELSE IF ~(f.recebeValeTransporte.t = "num" /\ f.recebeValeTransporte.n \in {0, 1})
        THEN Throw(D, req, ErroValidacao("O campo 'recebeValeTransporte' deve ser 0 ou 1"), <<>>, NoRet)
        ELSE IF ~f.cargo.object
        THEN Throw(D, req, ErroValidacao("O campo 'cargo' e obrigatorio e deve ser um objeto"), <<>>, NoRet)
        ELSE IF ~(f.cargo.idCargo.t = "num") \/ f.cargo.idCargo.n <= 0
        THEN Throw(D, req, ErroValidacao("O campo 'idCargo' deve ser um numero inteiro positivo"), <<>>, NoRet)
        ELSE CallNext(D, req)

RECURSIVE Decimal(_)
Decimal(n) ==
    IF n < 0 THEN <<"-">> \o Decimal(0 - n)
    ELSE IF n < 10 THEN <<(<<"0","1","2","3","4","5","6","7","8","9">>)[n + 1]>>
    ELSE Decimal(n \div 10) \o Decimal(n % 10)

\* value.toString() of a string or a number
toString(v) == IF v.t = "str" THEN v.s ELSE Decimal(v.n)

\* FuncionarioMiddleware.validateLoginBody
FuncionarioMiddleware_validateLoginBody(D, req) ==
    LET f == req.body
    IN  IF ~f.has
        THEN Throw(D, req, ErroValidacao("O campo 'funcionario' e obrigatorio!"), <<>>, NoRet)
        ELSE IF ~Truthy(f.email) \/ Trim(toString(f.email)) = <<>>
        THEN Throw(D, req, ErroValidacao("O campo 'email' e obrigatorio!"), <<>>, NoRet)
        ELSE IF ~Truthy(f.senha) \/ Trim(toString(f.senha)) = <<>>
        THEN Throw(D, req, ErroValidacao("O campo 'senha' e obrigatorio!"), <<>>, NoRet)
        ELSE IF ~emailRegex(toString(f.email))
        THEN Throw(D, req, ErroValidacao("O campo 'email' nao e um e-mail valido"), <<>>, NoRet)
        ELSE CallNext(D, req)

\* FuncionarioMiddleware.validateIdParam
FuncionarioMiddleware_validateIdParam(D, req) ==
    IF ~Truthy(req.id)
    THEN Throw(D, req, ErroValidacao("O parametro 'idFuncionario' e obrigatorio!"), <<>>, NoRet)
    ELSE CallNext(D, req)

(***************************************************************************)
(* Controllers.                                                            *)
(***************************************************************************)
\* CargoControl.store
CargoControl_store(D, req) ==
    Bind(CargoService_createCargo(D, req.body), LAMBDA r :
    LET called == <<"CargoService.createCargo">>
    IN  IF Failed(r.out) THEN Throw(r.db, req, r.out, called, r.out)
        ELSE IF r.out.v # 0
        THEN Sent(r.db, req,
                  Json(201, TRUE, "Cadastro realizado com sucesso",
                       [idCargo |-> r.out.v, nomeCargo |-> req.body.nomeCargo]),
                  called, r.out)
        ELSE Throw(r.db, req, Error("Falha ao cadastrar novo Cargo"), called, r.out))

\* CargoControl.index
CargoControl_index(D, req) ==
    Bind(CargoService_findAll(D), LAMBDA r :
        Sent(r.db, req, Json(200, TRUE, "Busca realizada com sucesso", r.out.v),
             <<"CargoService.findAll">>, r.out))

\* CargoControl.show
CargoControl_show(D, req) ==
    Bind(CargoService_findById(D, req.id), LAMBDA r :
    LET called == <<"CargoService.findById">>
    IN  IF Failed(r.out) THEN Throw(r.db, req, r.out, called, r.out)
        ELSE Sent(r.db, req, Json(200, TRUE, "Executado com sucesso", r.out.v), called, r.out))

\* CargoControl.update
CargoControl_update(D, req) ==
    Bind(CargoService_updateCargo(D, req.id, req.body.nomeCargo), LAMBDA r :
    LET called == <<"CargoService.updateCargo">>
        data == [idCargo |-> req.id, nomeCargo |-> req.body.nomeCargo]
    IN  IF Failed(r.out) THEN Throw(r.db, req, r.out, called, r.out)
        ELSE IF r.out.v
        THEN Sent(r.db, req, Json(200, TRUE, "Atualizado com sucesso", data), called, r.out)
        ELSE Sent(r.db, req, Json(404, FALSE, "Cargo nao encontrado para atualizacao", data),
                  called, r.out))

\* CargoControl.destroy: deleteCargo is called without await, so excluiu is
\* the Promise; a rejection of it is handled by nobody.
CargoControl_destroy(D, req) ==
    Bind(CargoService_deleteCargo(D, req.id), LAMBDA r :
    LET excluiu == Promise(r.out)
        called == <<"CargoService.deleteCargo">>
        data == [idCargo |-> req.id]
    IN  IF Test(excluiu)
        THEN Sent(r.db, req,
                  [Json(204, TRUE, "Ecluido com sucesso com sucesso", data)
                     EXCEPT !.unhandledRejection = Failed(r.out)],
                  called, r.out)
        ELSE Sent(r.db, req, Json(404, FALSE, "Cargo nao encontrado para exclusao", data),
                  called, r.out))

\* FuncionarioControl.login
FuncionarioControl_login(D, req) ==
    Bind(FuncionarioService_loginFuncionario(D, req.body), LAMBDA r :
    LET called == <<"FuncionarioService.loginFuncionario">>
    IN  IF Failed(r.out) THEN Throw(r.db, req, r.out, called, r.out)
        ELSE Sent(r.db, req, Json(200, TRUE, "Login efetuado com sucesso!", r.out.v), called, r.out))

\* JSON.stringify of a Funcionario instance: its fields are private (#), so
\* the object serialises without any property.
JsonOfFuncionario(obj) == <<>>

\* FuncionarioControl.store
FuncionarioControl_store(D, req) ==
    Bind(FuncionarioService_createFuncionario(D, req.body), LAMBDA r :
    LET called == <<"FuncionarioService.createFuncionario">>
    IN  IF Failed(r.out) THEN Throw(r.db, req, r.out, called, r.out)
        ELSE Sent(r.db, req,
                  Json(200, TRUE, "Cadastro realizado com sucesso", JsonOfFuncionario(r.out.v)),
                  called, r.out))

\* FuncionarioControl.index
FuncionarioControl_index(D, req) ==
    Bind(FuncionarioService_findAll(D), LAMBDA r :
        Sent(r.db, req, Json(200, TRUE, "Executado com sucesso", r.out.v),
             <<"FuncionarioService.findAll">>, r.out))

\* FuncionarioControl.show
FuncionarioControl_show(D, req) ==
    Bind(FuncionarioService_findById(D, req.id), LAMBDA r :
    LET called == <<"FuncionarioService.findById">>
    IN  IF Failed(r.out) THEN Throw(r.db, req, r.out, called, r.out)
        ELSE Sent(r.db, req, Json(200, TRUE, "Executado com sucesso", r.out.v), called, r.out))

\* FuncionarioControl.update
FuncionarioControl_update(D, req) ==
    Bind(FuncionarioService_updateFuncionario(D, req.id, req.body), LAMBDA r :
    LET called == <<"FuncionarioService.updateFuncionario">>
    IN  IF Failed(r.out) THEN Throw(r.db, req, r.out, called, r.out)
        ELSE Sent(r.db, req,
                  Json(200, TRUE, "Atualizado com sucesso",
                       [idFuncionario |-> req.id, nomeFuncionario |-> req.body.nomeFuncionario]),
                  called, r.out))

\* FuncionarioControl.destroy
FuncionarioControl_destroy(D, req) ==
    Bind(FuncionarioService_deleteFuncionario(D, req.id), LAMBDA r :
    LET called == <<"FuncionarioService.deleteFuncionario">>
    IN  IF Failed(r.out) THEN Throw(r.db, req, r.out, called, r.out)
        ELSE IF ~r.out.v
        THEN Sent(r.db, req, Json(404, FALSE, "Funcionario nao encontrado", <<>>), called, r.out)
        ELSE Sent(r.db, req, Json(204, TRUE, "Excluido com sucesso", <<>>), called, r.out))

(***************************************************************************)
(* Routers: the handler chain each route registers.                        *)
(***************************************************************************)
\* CargoRoteador.createRoutes, mounted on /api/v1/cargos
CargoRoteador_createRoutes ==
    ("POST /cargos" :> <<"JwtMiddleware.validateToken", "CargoMiddleware.validateBody",
                         "CargoControl.store">>)
 @@ ("GET /cargos" :> <<"JwtMiddleware.validateToken", "CargoControl.index">>)
 @@ ("GET /cargos/:idCargo" :> <<"JwtMiddleware.validateToken", "CargoMiddleware.validateIdParam",
                                 "CargoControl.show">>)
 @@ ("PUT /cargos/:idCargo" :> <<"JwtMiddleware.validateToken", "CargoMiddleware.validateIdParam",
                                 "CargoMiddleware.validateBody", "CargoControl.update">>)
 @@ ("DELETE /cargos/:idCargo" :> <<"JwtMiddleware.validateToken", "CargoMiddleware.validateIdParam",
                                    "CargoControl.destroy">>)

\* FuncionarioRoteador.createRoutes, mounted on /api/v1/funcionarios
FuncionarioRoteador_createRoutes ==
    ("POST /funcionarios/login" :> <<"FuncionarioMiddleware.validateLoginBody",
                                     "FuncionarioControl.login">>)
 @@ ("POST /funcionarios" :> <<"JwtMiddleware.validateToken",
                               "FuncionarioMiddleware.validateCreateBody",
                               "FuncionarioControl.store">>)
 @@ ("PUT /funcionarios/:idFuncionario" :> <<"JwtMiddleware.validateToken",
                                             "FuncionarioMiddleware.validateIdParam",
                                             "FuncionarioMiddleware.validateCreateBody",
                                             "FuncionarioControl.update">>)
 @@ ("DELETE /funcionarios/:idFuncionario" :> <<"JwtMiddleware.validateToken",
                                                "FuncionarioMiddleware.validateIdParam",
                                                "FuncionarioControl.destroy">>)
 @@ ("GET /funcionarios" :> <<"JwtMiddleware.validateToken", "FuncionarioControl.index">>)
 @@ ("GET /funcionarios/:idFuncionario" :> <<"JwtMiddleware.validateToken",
                                             "FuncionarioMiddleware.validateIdParam",
                                             "FuncionarioControl.show">>)

\* The routes Server.setupCargo and Server.setupFuncionario mount
Routes == CargoRoteador_createRoutes @@ FuncionarioRoteador_createRoutes

Invoke(handler, D, req) ==
    CASE handler = "JwtMiddleware.validateToken" -> JwtMiddleware_validateToken(D, req)
      [] handler = "CargoMiddleware.validateBody" -> CargoMiddleware_validateBody(D, req)
      [] handler = "CargoMiddleware.validateIdParam" -> CargoMiddleware_validateIdParam(D, req)
      [] handler = "CargoControl.store" -> CargoControl_store(D, req)
      [] handler = "CargoControl.index" -> CargoControl_index(D, req)
      [] handler = "CargoControl.show" -> CargoControl_show(D, req)
      [] handler = "CargoControl.update" -> CargoControl_update(D, req)
      [] handler = "CargoControl.destroy" -> CargoControl_destroy(D, req)
      [] handler = "FuncionarioMiddleware.validateLoginBody" -> FuncionarioMiddleware_validateLoginBody(D, req)
      [] handler = "FuncionarioMiddleware.validateCreateBody" -> FuncionarioMiddleware_validateCreateBody(D, req)
      [] handler = "FuncionarioMiddleware.validateIdParam" -> FuncionarioMiddleware_validateIdParam(D, req)
      [] handler = "FuncionarioControl.login" -> FuncionarioControl_login(D, req)
      [] handler = "FuncionarioControl.store" -> FuncionarioControl_store(D, req)
      [] handler = "FuncionarioControl.index" -> FuncionarioControl_index(D, req)
      [] handler = "FuncionarioControl.show" -> FuncionarioControl_show(D, req)
      [] handler = "FuncionarioControl.update" -> FuncionarioControl_update(D, req)
      [] handler = "FuncionarioControl.destroy" -> FuncionarioControl_destroy(D, req)

\* Express runs the chain of a route: each handler in turn while it calls
\* next(); an error thrown or passed to next() goes to the error handler.
RECURSIVE Dispatch(_, _, _, _, _)
Dispatch(chain, i, D, req, log) ==
    Bind(Invoke(chain[i], D, req), LAMBDA h :
    LET logged == Append(log, chain[i]) \o h.called
    IN  CASE h.kind = "next" /\ i < Len(chain) -> Dispatch(chain, i + 1, h.db, h.req, logged)
          [] h.kind = "throw" ->
                [db |-> h.db, req |-> h.req, calls |-> Append(logged, "Server.errorHandler"),
                 ret |-> h.ret, resp |-> errorHandler(h.err)]
          [] OTHER -> [db |-> h.db, req |-> h.req, calls |-> logged, ret |-> h.ret, resp |-> h.resp])

(***************************************************************************)
(* Requests the clients send.                                              *)
(***************************************************************************)
sDev == <<"D", "e", "v">>
sDevPadded == <<" ", "D", "e", "v", " ">>
sDevLower == <<"d", "e", "v">>
sOps == <<"O", "p", "s">>
sTooShort == <<"a", "b">>
sBlank == <<" ", " ">>
sTooLong == [i \in 1..(MaxNomeCargo + 1) |-> "n"]
sAna == <<"A", "n", "a">>
sEmailA == <<"a", "@", "x", ".", "c">>
sEmailAPadded == <<" ", "a", "@", "x", ".", "c">>
sEmailB == <<"b", "@", "x", ".", "c">>
sEmailC == <<"c", "@", "x", ".", "c">>
sNoEmail == <<"a", "@", "x">>
sPass == <<"P", "a", "s", "s", "@", "1">>
sWord == <<"W", "o", "r", "d", "#", "2">>
sWeak == <<"s", "e", "c", "r", "e", "t">>
sPassPadded == <<" ", "P", "a", "s", "s", "@", "1", " ">>
sPadShort == <<"P", "@", "1", " ", " ", " ">>
sShort == <<"P", "@", "1", "a">>
sNoUpper == <<"p", "a", "s", "s", "@", "1">>
sNoDigit == <<"P", "a", "s", "s", "@", "x">>
sNoSpecial == <<"P", "a", "s", "s", "1", "2">>

NoClaims == [email |-> <<>>, role |-> <<>>, name |-> <<>>, idFuncionario |-> 0]
SomeClaims == [email |-> sEmailA, role |-> sDev, name |-> sAna, idFuncionario |-> 1]

\* Authorization headers: none, not of the Bearer shape, a token signed
\* with another secret, an expired token, a token gerarToken issued earlier
Headers ==
    { [shape |-> "absent", sig |-> "none", expired |-> FALSE, claims |-> NoClaims],
      [shape |-> "malformed", sig |-> "none", expired |-> FALSE, claims |-> NoClaims],
      [shape |-> "bearer", sig |-> "other", expired |-> FALSE, claims |-> SomeClaims],
      [shape |-> "bearer", sig |-> "server", expired |-> TRUE, claims |-> SomeClaims],
      gerarToken(SomeClaims) }
UnreadHeader == [shape |-> "unread", sig |-> "none", expired |-> FALSE, claims |-> NoClaims]

\* No token: the client has not logged in
NoToken == [has |-> FALSE, claims |-> NoClaims, exp |-> 0]

NoBody == [has |-> FALSE]
NoInput == [id |-> Undefined, body |-> NoBody]

CargoBodies ==
    {NoBody} \cup
    {[has |-> TRUE, nomeCargo |-> v] :
        v \in {Str(sDev), Str(sDevPadded), Str(sDevLower), Str(sOps), Str(sTooShort),
               Str(sBlank), Str(sTooLong), Num(7), Undefined}}

CargoIds == {Str(Decimal(i)) : i \in 0..(MaxCargoId + 1)} \cup {Str(<<"x">>)}
FuncionarioIds == {Str(Decimal(i)) : i \in 0..(MaxFuncionarioId + 1)} \cup {Str(<<"x">>)}

Payload(nome, email, senha, vale, idCargo) ==
    [has |-> TRUE, nomeFuncionario |-> nome, email |-> email, senha |-> senha,
     recebeValeTransporte |-> vale, cargo |-> [object |-> TRUE, idCargo |-> idCargo]]

FuncionarioBodies ==
    { NoBody,
      Payload(Str(sAna), Str(sEmailA), Str(sPass), Num(1), Num(1)),
      Payload(Str(sAna), Str(sEmailAPadded), Str(sPass), Num(1), Num(1)),
      Payload(Str(sAna), Str(sEmailB), Str(sWord), Num(1), Num(1)),
      Payload(Str(sAna), Str(sEmailA), Str(sPass), Num(1), Num(2)),
      Payload(Str(sAna), Str(sEmailA), Str(sPass), Num(1), Num(99)),
      Payload(Str(sAna), Str(sEmailB), Str(sWord), Num(1), Num(99)),
      Payload(Str(sTooShort), Str(sEmailA), Str(sPass), Num(1), Num(1)),
      Payload(Str(sAna), Str(sNoEmail), Str(sPass), Num(1), Num(1)),
      Payload(Str(sAna), Str(sEmailA), Str(sWeak), Num(1), Num(1)),
      Payload(Str(sAna), Str(sEmailA), Str(sPass), Num(2), Num(1)),
      Payload(Str(sAna), Str(sEmailA), Str(sPass), Num(1), Str(<<"1">>)),
      Payload(Str(sAna), Str(sEmailB), Undefined, Num(1), Num(1)) }
    \cup {Payload(Str(sAna), Str(sEmailA), senha, Num(1), Num(1)) :
            senha \in {Str(sPassPadded), Str(sPadShort), Str(sShort), Str(sNoUpper),
                       Str(sNoDigit), Str(sNoSpecial), Num(123456)}}

LoginBodies ==
    {NoBody} \cup
    {[has |-> TRUE, email |-> Str(e), senha |-> Str(p)] :
        e \in {sEmailA, sEmailB, sEmailC, sNoEmail}, p \in {sPass, sWord, sWeak}}

\* The two clients whose create requests the server handles at once
Clients == {"first", "second"}

\* No request of the client is being handled
Quiet == [pc |-> "idle", route |-> "none", body |-> NoBody, seen |-> {},
          calls |-> <<>>, ret |-> NoRet, resp |-> NoResp]

(***************************************************************************)
(* The state machine.                                                      *)
(***************************************************************************)
\* The tables as the CREATE TABLE statements of docs/Banco.sql leave them:
\* empty, AUTO_INCREMENT starting at 1
Pristine ==
    /\ cargo = {}
    /\ funcionario = {}
    /\ aiCargo = 1
    /\ aiFuncionario = 1
    /\ asCreated = {}
    /\ before = [cargo |-> {}, funcionario |-> {}]
    /\ route = "none"
    /\ hdr = UnreadHeader
    /\ inp = NoInput
    /\ calls = <<>>
    /\ ret = NoRet
    /\ resp = NoResp
    /\ now = 0
    /\ held = NoToken
    /\ issued = NoToken
    /\ inflight = [p \in Clients |-> Quiet]

\* The middlewares Server.init registers with Express, in the order of its
\* statements; the third entry is the creation of the connection pool
InitSteps ==
    <<"express.json", "express.static", "MysqlDatabase.connect", "beforeRouting",
      "/api/v1/cargos", "/api/v1/funcionarios", "errorHandler">>

\* The process as app.js finds it, and as app.js leaves it when nothing threw
Launched == [done |-> 0, stack |-> <<>>, threw |-> FALSE, listening |-> FALSE]
Listening == [done |-> Len(InitSteps), stack |-> InitSteps, threw |-> FALSE, listening |-> TRUE]

\* The server is up, nothing is stored, no request has arrived
Init == Pristine /\ boot = Listening

\* No request is being handled
Idle == route = "none"

\* One request, from its arrival to its response.  Requests are handled one
\* at a time: the next one arrives after the previous one has ended.
Served(r, req) ==
    Dispatch(Routes[r], 1,
             [cargo |-> cargo, funcionario |-> funcionario,
              aiCargo |-> aiCargo, aiFuncionario |-> aiFuncionario],
             req, <<>>)

Request(r, req) ==
    \E done \in {Served(r, req)} :
        /\ cargo' = done.db.cargo
        /\ funcionario' = done.db.funcionario
        /\ aiCargo' = done.db.aiCargo
        /\ aiFuncionario' = done.db.aiFuncionario
        /\ asCreated' = {f.idFuncionario :
                                 f \in {g \in done.db.funcionario :
                                           \A o \in funcionario : o.idFuncionario # g.idFuncionario}}
                         \cup {f.idFuncionario :
                                 f \in {g \in funcionario \cap done.db.funcionario :
                                           g.idFuncionario \in asCreated}}
        /\ before' = [cargo |-> cargo, funcionario |-> funcionario]
        /\ route' = r
        /\ hdr' = IF "JwtMiddleware.validateToken" \in Range(done.calls)
                  THEN req.authorization ELSE UnreadHeader
        /\ inp' = IF \E c \in Range(done.calls) : c # "JwtMiddleware.validateToken"
                  THEN [id |-> req.id, body |-> req.body] ELSE NoInput
        /\ calls' = done.calls
        /\ ret' = done.ret
        /\ resp' = done.resp

PostCargos ==
    /\ Idle
    /\ aiCargo <= MaxCargoId
    /\ \E a \in Headers, b \in CargoBodies :
          /\ Request("POST /cargos", [authorization |-> a, id |-> Undefined, body |-> b])
    /\ UNCHANGED <<session, inflight, boot>>

GetCargos ==
    /\ Idle
    /\ \E a \in Headers :
          Request("GET /cargos", [authorization |-> a, id |-> Undefined, body |-> NoBody])
    /\ UNCHANGED <<session, inflight, boot>>

GetCargo ==
    /\ Idle
    /\ \E a \in Headers, i \in CargoIds :
          /\ Request("GET /cargos/:idCargo", [authorization |-> a, id |-> i, body |-> NoBody])
    /\ UNCHANGED <<session, inflight, boot>>

PutCargo ==
    /\ Idle
    /\ \E a \in Headers, i \in CargoIds, b \in CargoBodies :
          /\ Request("PUT /cargos/:idCargo", [authorization |-> a, id |-> i, body |-> b])
    /\ UNCHANGED <<session, inflight, boot>>

DeleteCargo ==
    /\ Idle
    /\ \E a \in Headers, i \in CargoIds :
          /\ Request("DELETE /cargos/:idCargo", [authorization |-> a, id |-> i, body |-> NoBody])
    /\ UNCHANGED <<session, inflight, boot>>

PostLogin ==
    /\ Idle
    /\ \E b \in LoginBodies :
          Request("POST /funcionarios/login",
                  [authorization |-> UnreadHeader, id |-> Undefined, body |-> b])
    /\ UNCHANGED <<session, inflight, boot>>

PostFuncionarios ==
    /\ Idle
    /\ aiFuncionario <= MaxFuncionarioId
    /\ \E a \in Headers, b \in FuncionarioBodies :
          /\ Request("POST /funcionarios", [authorization |-> a, id |-> Undefined, body |-> b])
    /\ UNCHANGED <<session, inflight, boot>>

PutFuncionario ==
    /\ Idle
    /\ \E a \in Headers, i \in FuncionarioIds, b \in FuncionarioBodies :
          /\ Request("PUT /funcionarios/:idFuncionario", [authorization |-> a, id |-> i, body |-> b])
    /\ UNCHANGED <<session, inflight, boot>>

DeleteFuncionario ==
    /\ Idle
    /\ \E a \in Headers, i \in FuncionarioIds :
          /\ Request("DELETE /funcionarios/:idFuncionario", [authorization |-> a, id |-> i, body |-> NoBody])
    /\ UNCHANGED <<session, inflight, boot>>

GetFuncionarios ==
    /\ Idle
    /\ \E a \in Headers :
          Request("GET /funcionarios", [authorization |-> a, id |-> Undefined, body |-> NoBody])
    /\ UNCHANGED <<session, inflight, boot>>

GetFuncionario ==
    /\ Idle
    /\ \E a \in Headers, i \in FuncionarioIds :
          /\ Request("GET /funcionarios/:idFuncionario", [authorization |-> a, id |-> i, body |-> NoBody])
    /\ UNCHANGED <<session, inflight, boot>>

\* The response has been flushed: Express drops the request and response
\* objects; the store is all that remains of the request.
Finish ==
    /\ route # "none"
    /\ route' = "none"
    /\ before' = [cargo |-> cargo, funcionario |-> funcionario]
    /\ hdr' = UnreadHeader
    /\ inp' = NoInput
    /\ calls' = <<>>
    /\ ret' = NoRet
    /\ resp' = NoResp
    /\ UNCHANGED <<cargo, funcionario, aiCargo, aiFuncionario, asCreated>>
    /\ UNCHANGED <<session, inflight, boot>>

(***************************************************************************)
(* A session: one client logs in, keeps the token of the login response    *)
(* and presents it on later requests, while the clock advances.            *)
(***************************************************************************)
\* The routes the client requests once logged in
ClientRoutes == {"GET /cargos", "GET /funcionarios"}

\* POST /funcionarios/login by the client: a 200 response carries, in
\* data.token, the token the client holds from then on.
ClientLogin ==
    /\ Idle
    /\ \E b \in LoginBodies :
          /\ Request("POST /funcionarios/login",
                     [authorization |-> UnreadHeader, id |-> Undefined, body |-> b])
          /\ \E done \in {Served("POST /funcionarios/login",
                                  [authorization |-> UnreadHeader, id |-> Undefined, body |-> b])} :
                IF done.resp.status = 200
                THEN /\ held' = IssuedAt(done.resp.data.token, now)
                     /\ issued' = IssuedAt(done.resp.data.token, now)
                ELSE UNCHANGED <<held, issued>>
    /\ UNCHANGED <<now, inflight, boot>>

\* A protected request by the client, with the token it holds.  The token
\* validateToken re-issues is written to request.headers.authorization; no
\* handler copies it to the response, so the client holds what it held.
ClientRequest ==
    /\ Idle
    /\ held.has
    /\ \E r \in ClientRoutes :
          /\ Request(r, [authorization |-> Bearer(held, now), id |-> Undefined, body |-> NoBody])
          /\ \E done \in {Served(r, [authorization |-> Bearer(held, now),
                                      id |-> Undefined, body |-> NoBody])} :
                issued' = IF done.resp.status # 401
                          THEN IssuedAt(done.req.authorization, now)
                          ELSE issued
    /\ UNCHANGED <<now, held, inflight, boot>>

\* Time passes between two requests
Tick ==
    /\ Idle
    /\ now < MaxNow
    /\ now' = now + 1
    /\ UNCHANGED <<cargo, funcionario, aiCargo, aiFuncionario, asCreated, before, route, hdr, inp,
                   calls, ret, resp, held, issued, inflight, boot>>

SessionNext ==
    \/ PostCargos
    \/ PostFuncionarios
    \/ ClientLogin
    \/ ClientRequest
    \/ Tick
    \/ Finish

SessionSpec == Init /\ [][SessionNext]_vars

(***************************************************************************)
(* Two create requests handled at the same time.  Node runs a handler      *)
(* until its first await and runs other handlers while it waits, so the    *)
(* SELECT of a create and its INSERT are two steps, and steps of another   *)
(* request may come between them.  The store runs each statement at once.  *)
(***************************************************************************)
\* The store as the pool of Server.init reaches it
Database ==
    [cargo |-> cargo, funcionario |-> funcionario, aiCargo |-> aiCargo, aiFuncionario |-> aiFuncionario]

RaceRoutes == {"POST /cargos", "POST /funcionarios"}
RaceBodies(r) == IF r = "POST /cargos" THEN CargoBodies ELSE FuncionarioBodies

\* The service method runs, without throwing, as far as its awaited lookup
ReachesLookup(r, body) ==
    IF r = "POST /cargos"
    THEN ~Failed(Cargo_set_nomeCargo(body.nomeCargo))
    ELSE /\ ~Failed(NewFuncionario(body))
         /\ ~LooseEquals(LengthOf(cargoExiste(Database, NewFuncionario(body).v.idCargo)), Num(0))

\* `await this.#cargoDAO.findByField("nomeCargo", cargo.nomeCargo)` of
\* createCargo, `await this.#funcionarioDAO.findByField("email", ...)` of
\* createFuncionario: the rows the SELECT returns when the store runs it
AwaitedLookup(D, r, body) ==
    IF r = "POST /cargos"
    THEN Await(Promise(CargoDAO_findByField(D, "nomeCargo", Cargo_set_nomeCargo(body.nomeCargo).v))).value
    ELSE emailExiste(D, NewFuncionario(body).v.email).value

\* CargoService.createCargo from the result of its lookup on
CargoService_createCargo_resume(D, cargoJson, resultado) ==
    IF Cardinality(resultado) > 0
    THEN [db |-> D, out |-> ErrorResponse(400, "Cargo ja existe", "O cargo ja existe")]
    ELSE CargoDAO_create(D, Cargo_set_nomeCargo(cargoJson.nomeCargo).v)

\* FuncionarioService.createFuncionario from the result of its lookup on
FuncionarioService_createFuncionario_resume(D, jsonFuncionario, resultado) ==
    Bind(NewFuncionario(jsonFuncionario), LAMBDA obj :
        IF GreaterThan(Num(Cardinality(resultado)), Num(0))
        THEN [db |-> D, out |-> ErrorResponse(400, "Ja existe um Funcionario com o email fornecido",
                                              "O email ja esta cadastrado")]
        ELSE Bind(FuncionarioDAO_create(D, obj.v), LAMBDA r :
                 IF Failed(r.out) THEN r
                 ELSE [db |-> r.db, out |-> Ok([obj.v EXCEPT !.idFuncionario = r.out.v,
                                                            !.senha = bcrypt_hash(obj.v.senha)])]))

\* CargoControl.store from the outcome of createCargo on
CargoControl_store_resume(req, r) ==
    LET called == <<"CargoService.createCargo">>
    IN  IF Failed(r.out) THEN Throw(r.db, req, r.out, called, r.out)
        ELSE IF r.out.v # 0
        THEN Sent(r.db, req,
                  Json(201, TRUE, "Cadastro realizado com sucesso",
                       [idCargo |-> r.out.v, nomeCargo |-> req.body.nomeCargo]),
                  called, r.out)
        ELSE Throw(r.db, req, Error("Falha ao cadastrar novo Cargo"), called, r.out)

\* FuncionarioControl.store from the outcome of createFuncionario on
FuncionarioControl_store_resume(req, r) ==
    LET called == <<"FuncionarioService.createFuncionario">>
    IN  IF Failed(r.out) THEN Throw(r.db, req, r.out, called, r.out)
        ELSE Sent(r.db, req,
                  Json(200, TRUE, "Cadastro realizado com sucesso", JsonOfFuncionario(r.out.v)),
                  called, r.out)

\* The controller of route r, resumed with the rows its lookup returned
Resumed(D, r, body, resultado) ==
    LET req == [authorization |-> UnreadHeader, id |-> Undefined, body |-> body]
    IN  IF r = "POST /cargos"
        THEN CargoControl_store_resume(req, CargoService_createCargo_resume(D, body, resultado))
        ELSE FuncionarioControl_store_resume(req,
                 FuncionarioService_createFuncionario_resume(D, body, resultado))

\* Requests of route r that have not run their INSERT yet
Pending(r) == {q \in Clients : inflight[q].route = r /\ inflight[q].pc \in {"lookup", "insert"}}

\* A create request of client p arrives: the middlewares, the controller and
\* the service run up to the awaited lookup.  (A request that is answered
\* before that point touches no table: it is a step of Spec.)
Arrives(p) ==
    /\ inflight[p].pc = "idle"
    /\ \E r \in RaceRoutes, a \in Headers : \E b \in RaceBodies(r) :
          LET chain == Routes[r]
              pre == Dispatch(SubSeq(chain, 1, Len(chain) - 1), 1, Database,
                              [authorization |-> a, id |-> Undefined, body |-> b], <<>>)
          IN  /\ pre.resp = NoResp
              /\ ReachesLookup(r, b)
              /\ IF r = "POST /cargos"
                 THEN aiCargo + Cardinality(Pending(r)) <= MaxCargoId
                 ELSE aiFuncionario + Cardinality(Pending(r)) <= MaxFuncionarioId
              /\ inflight' = [inflight EXCEPT ![p] =
                                 [Quiet EXCEPT !.pc = "lookup", !.route = r, !.body = b,
                                               !.calls = Append(pre.calls, chain[Len(chain)])]]
    /\ UNCHANGED <<cargo, funcionario, aiCargo, aiFuncionario, asCreated, before, route, hdr, inp,
                   calls, ret, resp, session, boot>>

\* The store runs the SELECT of client p's request
LookupRuns(p) ==
    /\ inflight[p].pc = "lookup"
    /\ inflight' = [inflight EXCEPT ![p].pc = "insert",
                                    ![p].seen = AwaitedLookup(Database, inflight[p].route,
                                                              inflight[p].body)]
    /\ UNCHANGED <<cargo, funcionario, aiCargo, aiFuncionario, asCreated, before, route, hdr, inp,
                   calls, ret, resp, session, boot>>

\* The service of client p's request resumes with the rows it awaited, the
\* store runs its INSERT if it gets that far, and the response is sent.
InsertRuns(p) ==
    /\ inflight[p].pc = "insert"
    /\ \E h \in {Resumed(Database, inflight[p].route, inflight[p].body, inflight[p].seen)} :
          /\ cargo' = h.db.cargo
          /\ funcionario' = h.db.funcionario
          /\ aiCargo' = h.db.aiCargo
          /\ aiFuncionario' = h.db.aiFuncionario
          /\ inflight' = [inflight EXCEPT
                            ![p].pc = "done",
                            ![p].ret = h.ret,
                            ![p].calls = IF h.kind = "throw"
                                         THEN Append(@ \o h.called, "Server.errorHandler")
                                         ELSE @ \o h.called,
                            ![p].resp = IF h.kind = "throw" THEN errorHandler(h.err) ELSE h.resp]
    /\ UNCHANGED <<asCreated, before, route, hdr, inp, calls, ret, resp, session, boot>>

\* The response of client p's request has been flushed
Flushed(p) ==
    /\ inflight[p].pc = "done"
    /\ inflight' = [inflight EXCEPT ![p] = Quiet]
    /\ UNCHANGED <<cargo, funcionario, aiCargo, aiFuncionario, asCreated, before, route, hdr, inp,
                   calls, ret, resp, session, boot>>

RaceNext ==
    \/ \E p \in Clients : Arrives(p)
    \/ \E p \in Clients : LookupRuns(p)
    \/ \E p \in Clients : InsertRuns(p)
    \/ \E p \in Clients : Flushed(p)

RaceSpec == Init /\ [][RaceNext]_vars

Next ==
    \/ PostCargos
    \/ GetCargos
    \/ GetCargo
    \/ PutCargo
    \/ DeleteCargo
    \/ PostLogin
    \/ PostFuncionarios
    \/ PutFuncionario
    \/ DeleteFuncionario
    \/ GetFuncionarios
    \/ GetFuncionario
    \/ Finish

Spec == Init /\ [][Next]_vars

(***************************************************************************)
(* The start of the process (app.js): new Server, await server.init(),     *)
(* server.run().  init is an async function without an await of its own:   *)
(* its statements run in order, and any of them may throw.                 *)
(***************************************************************************)
\* Everything app.js does not touch
served == <<cargo, funcionario, aiCargo, aiFuncionario, asCreated, before, route, hdr, inp,
            calls, ret, resp, session, inflight>>

\* server.run() is reached, app.js awaiting init, when init returned and
\* did not throw; were init not awaited, run() would follow a rejected init
RunReached_NotAwaited == boot.threw \/ boot.done = Len(InitSteps)
RunReached == ~boot.threw /\ boot.done = Len(InitSteps)

\* The next statement of Server.init completes
Server_init ==
    /\ ~boot.threw
    /\ boot.done < Len(InitSteps)
    /\ boot' = [boot EXCEPT !.done = @ + 1, !.stack = Append(@, InitSteps[boot.done + 1])]
    /\ UNCHANGED served

\* The next statement of Server.init throws: the catch of app.js logs it
Server_init_throws ==
    /\ ~boot.threw
    /\ boot.done < Len(InitSteps)
    /\ boot' = [boot EXCEPT !.threw = TRUE]
    /\ UNCHANGED served

\* Server.run: app.listen(porta)
Server_run ==
    /\ RunReached
    /\ ~boot.listening
    /\ boot' = [boot EXCEPT !.listening = TRUE]
    /\ UNCHANGED served

BootInit == Pristine /\ boot = Launched

\* The process starts; once it listens it serves requests as in Spec
BootNext ==
    \/ Server_init
    \/ Server_init_throws
    \/ Server_run
    \/ (boot.listening /\ Next)

BootSpec == BootInit /\ [][BootNext]_vars

TypeOK ==
    /\ aiCargo \in 1..(MaxCargoId + 1)
    /\ aiFuncionario \in 1..(MaxFuncionarioId + 1)
    /\ \A r \in cargo : r.idCargo \in 1..MaxCargoId
    /\ \A f \in funcionario : f.idFuncionario \in 1..MaxFuncionarioId
    /\ asCreated \subseteq {f.idFuncionario : f \in funcionario}
    /\ now \in 0..MaxNow
    /\ held.exp \in 0..(MaxNow + TokenTtl)
    /\ issued.exp \in 0..(MaxNow + TokenTtl)
    /\ issued.has => held.has
    /\ \A p \in Clients : inflight[p].pc \in {"idle", "lookup", "insert", "done"}
    /\ boot.done \in 0..Len(InitSteps)
    /\ boot.stack = SubSeq(InitSteps, 1, boot.done)

(***************************************************************************)
(* Properties.  A state right after a request carries the request (route,  *)
(* hdr, inp), what ran for it (calls, ret, resp) and the tables before it. *)
(***************************************************************************)
Invoked(method) == method \in Range(calls)
Unchanged == cargo = before.cargo /\ funcionario = before.funcionario

\* Every route of both routers except POST /login
ProtectedRoutes == DOMAIN Routes \ {"POST /funcionarios/login"}

\* C1: on every route other than POST /login the JWT validation is the
\* first handler to run, and when the Authorization header does not
\* validate (absent, malformed, signed with another secret, expired) the
\* answer is 401 and nothing else runs: no input-shape middleware, no
\* controller, no service method, and the tables are as before.
C1_TokenValidatedFirst ==
    route \in ProtectedRoutes =>
        /\ calls[1] = "JwtMiddleware.validateToken"
        /\ validarToken(hdr) # TRUE =>
              /\ resp.status = 401
              /\ calls = <<"JwtMiddleware.validateToken">>
              /\ ret = NoRet
              /\ Unchanged

C1_Witness ==
    /\ route = "PUT /funcionarios/:idFuncionario"
    /\ hdr.shape = "bearer" /\ hdr.sig = "server" /\ hdr.expired
    /\ funcionario # {}
    /\ resp.status = 401

\* The payload of the last request builds a Funcionario value object
ValidPayload == inp.body.has /\ ~Failed(NewFuncionario(inp.body))

\* C2: createFuncionario with a role id that matches no stored Role fails
\* with the 400 error "O cargo informado nao existe" and inserts no row.
C2_MissingRoleIsBadRequest ==
    (/\ route = "POST /funcionarios"
     /\ Invoked("FuncionarioService.createFuncionario")
     /\ ValidPayload
     /\ ~\E c \in before.cargo : c.idCargo = NewFuncionario(inp.body).v.idCargo)
    => /\ ret.k = "ErrorResponse"
       /\ ret.httpCode = 400
       /\ ret.message = "O cargo informado nao existe"
       /\ resp.status = 400
       /\ funcionario = before.funcionario

\* The last request, sent once more to the store as it is now
Repeated ==
    Dispatch(Routes[route], 1,
             [cargo |-> cargo, funcionario |-> funcionario,
              aiCargo |-> aiCargo, aiFuncionario |-> aiFuncionario],
             [authorization |-> hdr, id |-> inp.id, body |-> inp.body], <<>>)

EmailConflict(outcome) ==
    /\ outcome.k = "ErrorResponse"
    /\ outcome.httpCode = 400
    /\ outcome.message = "Ja existe um Funcionario com o email fornecido"

\* C3: createFuncionario with the email of a stored Employee fails with the
\* conflict error and inserts no row; a payload that was just created with
\* success, submitted again, gets the conflict error and no second row.
C3_EmailConflictOnCreate ==
    (/\ route = "POST /funcionarios"
     /\ Invoked("FuncionarioService.createFuncionario")
     /\ ValidPayload)
    => /\ (\E f \in before.funcionario : f.email = NewFuncionario(inp.body).v.email)
            => /\ EmailConflict(ret)
               /\ resp.status = 400
               /\ funcionario = before.funcionario
       /\ ret.k = "ok"
            => /\ Cardinality(funcionario) = Cardinality(before.funcionario) + 1
               /\ EmailConflict(Repeated.ret)
               /\ Repeated.resp.status = 400
               /\ Repeated.db.funcionario = funcionario

C3_Witness ==
    /\ route = "POST /funcionarios"
    /\ ValidPayload
    /\ \E f \in before.funcionario : f.email = NewFuncionario(inp.body).v.email
    /\ EmailConflict(ret)

\* The name of the last request builds a Cargo value object
ValidNomeCargo == inp.body.has /\ ~Failed(Cargo_set_nomeCargo(inp.body.nomeCargo))
NomeCargoTrimmed == Cargo_set_nomeCargo(inp.body.nomeCargo).v

CargoConflict(outcome) ==
    /\ outcome.k = "ErrorResponse"
    /\ outcome.httpCode = 400
    /\ outcome.message = "Cargo ja existe"

\* createCargo persisted the trimmed name under an id no Role had
CargoPersisted ==
    /\ ret.k = "ok"
    /\ \A c \in before.cargo : c.idCargo # ret.v
    /\ cargo = before.cargo \cup {[idCargo |-> ret.v, nomeCargo |-> NomeCargoTrimmed]}

\* C4 as the specification states it: createCargo fails with the conflict
\* error, the Role table unchanged, when the trimmed name equals the name
\* of a stored Role, and otherwise persists the trimmed name and returns
\* the new id.
C4_ConflictOnlyOnEqualName ==
    (/\ route = "POST /cargos"
     /\ Invoked("CargoService.createCargo")
     /\ ValidNomeCargo)
    => IF \E c \in before.cargo : c.nomeCargo = NomeCargoTrimmed
       THEN CargoConflict(ret) /\ cargo = before.cargo
       ELSE CargoPersisted

\* C4, amended: createCargo with a name the value object accepts fails with
\* the conflict error, the Role table unchanged, when its trimmed form and
\* the name of a stored Role are equal as the store compares names (letter
\* case ignored); when no stored name compares equal it persists the
\* trimmed name and returns the new id.
C4_ConflictOnNameTheStoreMatches ==
    (/\ route = "POST /cargos"
     /\ Invoked("CargoService.createCargo")
     /\ ValidNomeCargo)
    => IF \E c \in before.cargo : CollEq(c.nomeCargo, NomeCargoTrimmed)
       THEN CargoConflict(ret) /\ resp.status = 400 /\ cargo = before.cargo
       ELSE CargoPersisted /\ resp.status = 201 /\ resp.data.idCargo = ret.v

C4_Witness ==
    /\ route = "POST /cargos"
    /\ ValidNomeCargo
    /\ \E c \in before.cargo : CollEq(c.nomeCargo, NomeCargoTrimmed)
    /\ \A c \in before.cargo : c.nomeCargo # NomeCargoTrimmed
    /\ CargoConflict(ret)
    /\ cargo = before.cargo

\* C5: no two stored Roles have the same name, whatever requests were
\* served, a rename to the name of another Role included.
C5_UniqueNomeCargo ==
    \A c1, c2 \in cargo : c1.nomeCargo = c2.nomeCargo => c1 = c2

C5_Witness ==
    /\ route = "PUT /cargos/:idCargo"
    /\ Invoked("CargoService.updateCargo")
    /\ ValidNomeCargo
    /\ \E c \in before.cargo :
          /\ Str(Decimal(c.idCargo)) # inp.id
          /\ c.nomeCargo = NomeCargoTrimmed
    /\ \E c \in before.cargo : Str(Decimal(c.idCargo)) = inp.id
    /\ resp.status = 500
    /\ cargo = before.cargo

\* C6: no two stored Employees have the same email, whatever requests were
\* served, an update of one Employee to the email of another included.
C6_UniqueEmail ==
    \A f1, f2 \in funcionario : f1.email = f2.email => f1 = f2

\* C7: the senha column of every stored Employee is the digest of a
\* password, never a password; the row a create or an update has just
\* written holds the digest of the password that request supplied.
C7_SenhaIsDigest ==
    /\ \A f \in funcionario :
          /\ \E p \in {sPass, sWord, sWeak} : f.senha = bcrypt_hash(Trim(p))
          /\ \A p \in {sPass, sWord, sWeak} : f.senha # p /\ f.senha # Trim(p)
    /\ (/\ route \in {"POST /funcionarios", "PUT /funcionarios/:idFuncionario"}
        /\ funcionario # before.funcionario)
       => \A f \in funcionario \ before.funcionario :
             /\ f.senha = bcrypt_hash(Trim(inp.body.senha.s))
             /\ f.senha # inp.body.senha.s

C7_Witness ==
    /\ route = "PUT /funcionarios/:idFuncionario"
    /\ resp.status = 200
    /\ \E f \in funcionario \ before.funcionario, o \in before.funcionario :
          /\ o.idFuncionario = f.idFuncionario
          /\ o.senha # f.senha
          /\ f.senha = bcrypt_hash(Trim(inp.body.senha.s))

\* The credentials of the last login request, as the setters leave them
LoginEmail == Funcionario_set_email(inp.body.email)
LoginSenha == Funcionario_set_senha(inp.body.senha)

\* The claims loginFuncionario puts in the token of Employee row f
ClaimsOf(f) ==
    [email |-> f.email,
     role |-> (CHOOSE c \in cargo : c.idCargo = f.Cargo_idCargo).nomeCargo,
     name |-> f.nomeFuncionario,
     idFuncionario |-> f.idFuncionario]

\* C8: while the row of an Employee created with email e and policy-valid
\* password p is as the creation left it, a login with (e, p) succeeds and
\* returns the user view and a token whose claims are that Employee's
\* email, role name, display name and id.
C8_LoginAfterCreate ==
    (/\ route = "POST /funcionarios/login"
     /\ Invoked("FuncionarioService.loginFuncionario")
     /\ ~Failed(LoginEmail) /\ ~Failed(LoginSenha))
    => \A f \in funcionario :
          (/\ f.idFuncionario \in asCreated
           /\ f.email = LoginEmail.v
           /\ f.senha = bcrypt_hash(LoginSenha.v))
          => /\ ret.k = "ok"
             /\ ret.v.user = ClaimsOf(f)
             /\ ret.v.token = gerarToken(ClaimsOf(f))
             /\ resp.status = 200

\* The store holds an Employee under the email supplied / an Employee under
\* that email whose digest the supplied password matches
Registered(email) == \E f \in funcionario : CollEq(f.email, Trim(email))
Matches(email, senha) ==
    \E f \in funcionario : CollEq(f.email, Trim(email)) /\ bcrypt_compare(Trim(senha), f.senha)

Unauthorized(outcome) ==
    /\ outcome.k = "ErrorResponse"
    /\ outcome.httpCode = 401
    /\ outcome.message = "Usuario ou senha invalidos"

LoginAnswer(email) ==
    Dispatch(Routes["POST /funcionarios/login"], 1,
             [cargo |-> cargo, funcionario |-> funcionario,
              aiCargo |-> aiCargo, aiFuncionario |-> aiFuncionario],
             [authorization |-> UnreadHeader, id |-> Undefined,
              body |-> [inp.body EXCEPT !.email = Str(email)]], <<>>).resp

\* The email addresses a login is compared with
Addresses == {e \in {sEmailA, sEmailB, sEmailC} : ~Failed(Funcionario_set_email(Str(e)))}

\* C10: a failed login does not tell whether the address is registered:
\* whatever the password, a login under a registered address whose
\* password does not match is answered with the status and message that
\* the same password gets under an address that is not registered.
C10_SameAnswerRegisteredOrNot ==
    (/\ route = "POST /funcionarios/login"
     /\ Invoked("FuncionarioService.loginFuncionario")
     /\ inp.body.email.s \in Addresses
     /\ Registered(inp.body.email.s)
     /\ ~Matches(inp.body.email.s, inp.body.senha.s))
    => \A e \in Addresses :
          ~Registered(e)
          => /\ LoginAnswer(e).status = resp.status
             /\ LoginAnswer(e).message = resp.message
             /\ LoginAnswer(e).detail = resp.detail
             /\ LoginAnswer(e).data = resp.data

C10_Witness ==
    /\ route = "POST /funcionarios/login"
    /\ inp.body.has
    /\ inp.body.email.s \in Addresses
    /\ Registered(inp.body.email.s)
    /\ ~Matches(inp.body.email.s, inp.body.senha.s)
    /\ \E e \in Addresses : ~Registered(e)
    /\ Failed(LoginSenha)
    /\ resp.status = 500

\* C11: every token validateToken re-issues carries exactly the claims of
\* the token it validated, so that the token issued last for a client
\* carries the email, display name, role name and id of its login token,
\* however many requests the client has made since.
C11_RefreshKeepsClaims ==
    issued.has => issued.claims = held.claims

\* C12: a request the client makes with a valid login behind it, before the
\* expiry of the token issued last for it, is not answered 401.
C12_NotRejectedBeforeExpiry ==
    (/\ route \in ClientRoutes
     /\ held.has
     /\ hdr = Bearer(held, now)
     /\ now < issued.exp)
    => resp.status # 401

\* A response of the 400 class: the client's fault
ClientFault(response) == response.status \in 400..499

\* C13: createCargo with a name that is not a string, or whose trimmed
\* length is below 3 or above 64, is answered with a validation error (400
\* class) and the Role table is unchanged; with a string of trimmed length 3
\* to 64 that collides with no stored name it persists the Role.
C13_NomeCargoValidated ==
    (/\ route = "POST /cargos"
     /\ validarToken(hdr) = TRUE
     /\ inp.body.has)
    => /\ ~ValidNomeCargo => ClientFault(resp) /\ cargo = before.cargo
       /\ (/\ ValidNomeCargo
           /\ ~\E c \in before.cargo : CollEq(c.nomeCargo, NomeCargoTrimmed))
          => CargoPersisted /\ resp.status = 201

\* The payload of the last request, its senha left aside, builds a
\* Funcionario value object
ValidButSenha == inp.body.has /\ ~Failed(NewFuncionario([inp.body EXCEPT !.senha = Str(sPass)]))

\* The password policy: a string of the given length, at least MinSenha,
\* with an uppercase letter, a digit and a special character
SenhaPolicy(value, length) ==
    /\ value.t = "str"
    /\ length >= MinSenha
    /\ HasCharIn(value.s, UpperCase)
    /\ HasCharIn(value.s, Digit)
    /\ HasCharIn(value.s, SpecialChar)

\* The senha setter threw on the last request
SenhaRejected ==
    /\ ret.k = "Error"
    /\ ret.message \in {"senha deve ser uma string.", "senha nao pode ser vazia.",
                        "senha deve ter pelo menos 6 caracteres.",
                        "senha deve conter pelo menos uma letra maiuscula.",
                        "senha deve conter pelo menos um numero.",
                        "senha deve conter pelo menos um caractere especial."}

\* C14 as the specification states it: the senha setter accepts a value if
\* and only if it is a string of length at least 6 with an uppercase letter,
\* a digit and a special character; with any other value the creation fails
\* and inserts no row.
C14_SenhaPolicyOnLength ==
    (/\ route = "POST /funcionarios"
     /\ Invoked("FuncionarioService.createFuncionario")
     /\ ValidButSenha)
    => IF SenhaPolicy(inp.body.senha, Len(inp.body.senha.s))
       THEN ~SenhaRejected
       ELSE SenhaRejected /\ resp.status # 200 /\ funcionario = before.funcionario

\* C14, amended: the senha setter accepts a value if and only if it is a
\* string whose trimmed form has length at least 6, with an uppercase
\* letter, a digit and a special character; with any other value the
\* creation fails and inserts no row.
C14_SenhaPolicyOnTrimmedLength ==
    (/\ route = "POST /funcionarios"
     /\ Invoked("FuncionarioService.createFuncionario")
     /\ ValidButSenha)
    => IF SenhaPolicy(inp.body.senha, Len(Trim(inp.body.senha.s)))
       THEN ~SenhaRejected
       ELSE SenhaRejected /\ resp.status # 200 /\ funcionario = before.funcionario

C14_Witness ==
    /\ route = "POST /funcionarios"
    /\ Invoked("FuncionarioService.createFuncionario")
    /\ ValidButSenha
    /\ \E c \in before.cargo : c.idCargo = inp.body.cargo.idCargo.n
    /\ SenhaPolicy(inp.body.senha, Len(inp.body.senha.s))
    /\ ~SenhaPolicy(inp.body.senha, Len(Trim(inp.body.senha.s)))
    /\ SenhaRejected
    /\ funcionario = before.funcionario

\* The last request fetched Employee row f: the list, or its id
Fetches(f) ==
    \/ route = "GET /funcionarios"
    \/ /\ route = "GET /funcionarios/:idFuncionario"
       /\ IsIntegerValue(inp.id)
       /\ NumberOf(inp.id) = f.idFuncionario

\* C15: an Employee created with role id r and fetched, by id or in the
\* list, is reported with a cargo whose idCargo is r and whose nomeCargo is
\* the name of the stored Role r.
C15_RoleRoundTrip ==
    (/\ route \in {"GET /funcionarios", "GET /funcionarios/:idFuncionario"}
     /\ resp.status = 200)
    => \A f \in funcionario :
          (f.idFuncionario \in asCreated /\ Fetches(f))
          => \E e \in resp.data :
                /\ e.idFuncionario = f.idFuncionario
                /\ "cargo" \in DOMAIN e
                /\ e.cargo.idCargo = f.Cargo_idCargo
                /\ \E c \in cargo : c.idCargo = f.Cargo_idCargo /\ c.nomeCargo = e.cargo.nomeCargo

\* The last request asked to delete a Role some Employee referred to
DeletesReferencedCargo ==
    /\ route = "DELETE /cargos/:idCargo"
    /\ IsIntegerValue(inp.id)
    /\ \E c \in before.cargo : c.idCargo = NumberOf(inp.id)
    /\ \E f \in before.funcionario : f.Cargo_idCargo = NumberOf(inp.id)

\* C16: whatever requests were served, the role id of every stored Employee
\* is the id of a stored Role; a Role delete requested while an Employee
\* refers to that Role removes nothing.
C16_RoleReferenceHolds ==
    /\ \A f \in funcionario : \E c \in cargo : c.idCargo = f.Cargo_idCargo
    /\ DeletesReferencedCargo => Unchanged

C16_Witness ==
    /\ DeletesReferencedCargo
    /\ Invoked("CargoService.deleteCargo")
    /\ ret.k = "Error"
    /\ ret.message = "ER_ROW_IS_REFERENCED_2"
    /\ Unchanged

\* The service method of the last request threw
ServiceThrew == ret.k \in {"Error", "ErrorResponse"}

\* C17: every error raised while a request is handled reaches the error
\* responder of Server.js, which sends the one response of the request, a
\* failure; no error is left as an unhandled rejection.
C17_ErrorsReachResponder ==
    /\ ServiceThrew =>
          /\ calls[Len(calls)] = "Server.errorHandler"
          /\ ~resp.success
          /\ resp.status >= 400
    /\ ~resp.unhandledRejection

\* Errors the store and the DAOs raise
StoreErrors ==
    {"ER_DUP_ENTRY", "ER_NO_REFERENCED_ROW_2", "ER_ROW_IS_REFERENCED_2",
     "Falha ao inserir cargo", "Falha ao inserir funcionario"}

\* A setter of Cargo or Funcionario threw in the service of the last request
SetterThrew == ret.k = "Error" /\ ret.message \notin StoreErrors

\* C18: a violation a Cargo or Funcionario setter detects during a service
\* operation is answered with a response of the 400 class.
C18_SetterViolationIsClientFault ==
    SetterThrew => ClientFault(resp)

\* C19: an error that is no ErrorResponse is answered 500 with the generic
\* message, and the response carries neither the stack trace nor the
\* message of the error.
C19_NoInternalDetail ==
    (Invoked("Server.errorHandler") /\ ret.k = "Error")
    => /\ resp.status = 500
       /\ resp.message = "Ocorreu um erro interno no servidor"
       /\ ~resp.stack
       /\ resp.detail = ""

\* C20: findById of a Role with a well-formed id fails with a 404 error
\* when no stored Role has that id, and otherwise succeeds with that Role.
C20_GetByIdNotFound ==
    (/\ route = "GET /cargos/:idCargo"
     /\ Invoked("CargoService.findById")
     /\ ~Failed(Cargo_set_idCargo(inp.id)))
    => IF \E c \in cargo : c.idCargo = NumberOf(inp.id)
       THEN /\ ret.k = "ok"
            /\ ret.v = {c \in cargo : c.idCargo = NumberOf(inp.id)}
            /\ resp.status = 200
            /\ resp.data = ret.v
       ELSE /\ ret.k = "ErrorResponse"
            /\ ret.httpCode = 404
            /\ resp.status = 404

\* The id of the last request names a stored Role (before the request)
RoleExisted ==
    /\ IsIntegerValue(inp.id)
    /\ \E c \in before.cargo : c.idCargo = NumberOf(inp.id)

\* C21: the Role delete endpoint answers 204 only if the Role with the given
\* id was removed from the store by the request, and answers 404 when a
\* well-formed id matches no stored Role.
C21_DeleteReflectsRemoval ==
    (route = "DELETE /cargos/:idCargo" /\ Invoked("CargoService.deleteCargo"))
    => /\ resp.status = 204 =>
             /\ RoleExisted
             /\ \A c \in cargo : c.idCargo # NumberOf(inp.id)
       /\ (~Failed(Cargo_set_idCargo(inp.id)) /\ ~RoleExisted) => resp.status = 404

\* The id of the last request names a stored Employee (before the request)
EmployeeExisted ==
    /\ IsIntegerValue(inp.id)
    /\ \E f \in before.funcionario : f.idFuncionario = NumberOf(inp.id)

\* C22: an Employee delete with a well-formed id removes exactly the row
\* with that id and answers 204; when no Employee has the id it answers 404
\* and leaves both tables as they were.  Either way no row with the id is
\* left, so a second delete of the same id finds nothing.
C22_DeleteFuncionarioExact ==
    (/\ route = "DELETE /funcionarios/:idFuncionario"
     /\ Invoked("FuncionarioService.deleteFuncionario")
     /\ ~Failed(Funcionario_set_idFuncionario(inp.id)))
    => /\ IF EmployeeExisted
          THEN /\ resp.status = 204
               /\ funcionario = {f \in before.funcionario : f.idFuncionario # NumberOf(inp.id)}
          ELSE /\ resp.status = 404
               /\ funcionario = before.funcionario
       /\ cargo = before.cargo
       /\ \A f \in funcionario : f.idFuncionario # NumberOf(inp.id)

C22_Witness ==
    /\ route = "DELETE /funcionarios/:idFuncionario"
    /\ EmployeeExisted
    /\ Cardinality(before.funcionario) = 2
    /\ Cardinality(funcionario) = 1
    /\ resp.status = 204

\* The two business rules of createFuncionario, on the payload of the last
\* request and the tables it met
RoleRuleViolated ==
    ~\E c \in before.cargo : c.idCargo = NewFuncionario(inp.body).v.idCargo
EmailRuleViolated ==
    \E f \in before.funcionario : f.email = NewFuncionario(inp.body).v.email

\* createFuncionario of the last request went as far as the INSERT
ReachedInsert ==
    \/ ret.k = "ok"
    \/ ret.k = "Error" /\ ret.message \in StoreErrors

\* C23: createFuncionario decides the role-existence rule before the
\* email-uniqueness rule and inserts only after both have passed: a payload
\* that violates both is rejected with the role-does-not-exist error, and
\* the INSERT is never reached with either rule violated.
C23_RoleRuleThenEmailRuleThenInsert ==
    (/\ route = "POST /funcionarios"
     /\ Invoked("FuncionarioService.createFuncionario")
     /\ ValidPayload)
    => /\ (RoleRuleViolated /\ EmailRuleViolated)
            => /\ ret.k = "ErrorResponse"
               /\ ret.message = "O cargo informado nao existe"
       /\ (RoleRuleViolated \/ EmailRuleViolated) => ~ReachedInsert

\* Client p's request on route r has been answered
Answered(p, r) == inflight[p].pc = "done" /\ inflight[p].route = r

\* Client p's request failed and the error responder answered it
AnsweredByResponder(p) ==
    /\ inflight[p].calls[Len(inflight[p].calls)] = "Server.errorHandler"
    /\ ~inflight[p].resp.success
    /\ inflight[p].resp.status >= 400
    /\ ~inflight[p].resp.unhandledRejection

\* C24: however two createCargo requests interleave, the lookups of both
\* before the insert of either included, no two stored Roles have the same
\* name; a request answered with success has its Role stored, and every
\* other request is answered with a failure by the error responder.
C24_OneRolePerNameUnderRace ==
    /\ \A c, d \in cargo : CollEq(c.nomeCargo, d.nomeCargo) => c = d
    /\ \A p \in Clients :
          Answered(p, "POST /cargos") =>
             IF inflight[p].resp.success
             THEN \E c \in cargo :
                     /\ c.idCargo = inflight[p].ret.v
                     /\ c.nomeCargo = Cargo_set_nomeCargo(inflight[p].body.nomeCargo).v
             ELSE AnsweredByResponder(p)

\* Both lookups found nothing, one insert was accepted and the other was
\* rejected by the store
C24_Witness ==
    /\ \A p \in Clients : Answered(p, "POST /cargos") /\ inflight[p].seen = {}
    /\ CollEq(Cargo_set_nomeCargo(inflight["first"].body.nomeCargo).v,
              Cargo_set_nomeCargo(inflight["second"].body.nomeCargo).v)
    /\ inflight["first"].resp.status = 201
    /\ inflight["second"].ret = Error("ER_DUP_ENTRY")
    /\ inflight["second"].resp.status = 500
    /\ Cardinality(cargo) = 1

\* C25: however two createFuncionario requests interleave, the lookups of
\* both before the insert of either included, no two stored Employees have
\* the same email: the store rejects the insert that comes second.
C25_OneEmployeePerEmailUnderRace ==
    \A f, g \in funcionario : f.email = g.email => f = g

\* The outcomes of the setters the service operation of the last request
\* applies to the request's id and body
SetterOutcomes ==
    CASE route \in {"GET /cargos/:idCargo", "DELETE /cargos/:idCargo"} ->
            <<Cargo_set_idCargo(inp.id)>>
      [] route = "POST /cargos" -> <<Cargo_set_nomeCargo(inp.body.nomeCargo)>>
      [] route = "PUT /cargos/:idCargo" ->
            <<Cargo_set_idCargo(inp.id), Cargo_set_nomeCargo(inp.body.nomeCargo)>>
      [] route \in {"GET /funcionarios/:idFuncionario", "DELETE /funcionarios/:idFuncionario"} ->
            <<Funcionario_set_idFuncionario(inp.id)>>
      [] route = "POST /funcionarios" -> <<NewFuncionario(inp.body)>>
      [] route = "PUT /funcionarios/:idFuncionario" ->
            <<Funcionario_set_idFuncionario(inp.id), NewFuncionario(inp.body)>>
      [] route = "POST /funcionarios/login" ->
            <<Funcionario_set_email(inp.body.email), Funcionario_set_senha(inp.body.senha)>>
      [] OTHER -> <<>>

\* The last request reached a service operation with an id or a body that
\* one of its setters rejects
FailsDomainValidation ==
    /\ ret.k # "none"
    /\ \E i \in DOMAIN SetterOutcomes : Failed(SetterOutcomes[i])

\* The last request, had it met the tables just created
OnEmptyStore ==
    Dispatch(Routes[route], 1,
             [cargo |-> {}, funcionario |-> {}, aiCargo |-> 1, aiFuncionario |-> 1],
             [authorization |-> hdr, id |-> inp.id, body |-> inp.body], <<>>)

\* C26: a request whose id or body violates an invariant of the value
\* object its service operation builds ends with the error of a violated
\* setter before any table is accessed: both tables are as before, and the
\* outcome and the response are those the request gets on empty tables, so
\* nothing read from the store has a part in them.
C26_ValidationBeforeStore ==
    FailsDomainValidation
    => /\ ret.k = "Error"
       /\ \E i \in DOMAIN SetterOutcomes :
             Failed(SetterOutcomes[i]) /\ ret.message = SetterOutcomes[i].message
       /\ Unchanged
       /\ OnEmptyStore.ret = ret
       /\ OnEmptyStore.resp = resp
       /\ OnEmptyStore.db.cargo = {} /\ OnEmptyStore.db.aiCargo = 1
       /\ OnEmptyStore.db.funcionario = {} /\ OnEmptyStore.db.aiFuncionario = 1

C26_Witness ==
    /\ route = "PUT /cargos/:idCargo"
    /\ Invoked("CargoService.updateCargo")
    /\ \E c \in cargo : c.idCargo = NumberOf(inp.id)
    /\ ret = Error("nomeCargo deve ter pelo menos 3 caracteres.")
    /\ Unchanged

\* The last request is an update of a stored Employee that passed the token
\* check, with a payload that is valid, its senha left aside
UpdatesStoredEmployee ==
    /\ route = "PUT /funcionarios/:idFuncionario"
    /\ validarToken(hdr) = TRUE
    /\ EmployeeExisted
    /\ ValidButSenha
    /\ \E c \in before.cargo : c.idCargo = inp.body.cargo.idCargo.n

\* C27: an update of a stored Employee that omits the password succeeds and
\* leaves the stored digest as it was; an update that supplies a password
\* the setter accepts succeeds and stores the digest of that password.
C27_UpdateWithOrWithoutSenha ==
    UpdatesStoredEmployee
    => \A o \in before.funcionario :
          o.idFuncionario = NumberOf(inp.id)
          => IF inp.body.senha = Undefined
             THEN /\ resp.status = 200
                  /\ \E f \in funcionario :
                        f.idFuncionario = o.idFuncionario /\ f.senha = o.senha
             ELSE ~Failed(Funcionario_set_senha(inp.body.senha))
                  => /\ resp.status = 200
                     /\ \E f \in funcionario :
                           /\ f.idFuncionario = o.idFuncionario
                           /\ f.senha = bcrypt_hash(Funcionario_set_senha(inp.body.senha).v)

\* C28: the Employee update endpoint answers with success only when an
\* Employee with the given id existed and its row now holds the payload;
\* for an id that matches no Employee the answer is not a success and both
\* tables are as before.
C28_UpdateFuncionarioNotFound ==
    (route = "PUT /funcionarios/:idFuncionario" /\ Invoked("FuncionarioService.updateFuncionario"))
    => /\ resp.success
            => /\ EmployeeExisted
               /\ \E f \in funcionario :
                     /\ f.idFuncionario = NumberOf(inp.id)
                     /\ f.nomeFuncionario = NewFuncionario(inp.body).v.nomeFuncionario
                     /\ f.email = NewFuncionario(inp.body).v.email
                     /\ f.Cargo_idCargo = NewFuncionario(inp.body).v.idCargo
       /\ ~EmployeeExisted => (~resp.success /\ resp.status >= 400 /\ Unchanged)

\* C29: no success response of an Employee operation (login, create, list,
\* get by id, update, delete) carries an Employee's password, neither the
\* plaintext nor the stored digest: no Employee in the data has a senha.
C29_NoPasswordInResponse ==
    resp.success
    => CASE route \in {"GET /funcionarios", "GET /funcionarios/:idFuncionario"} ->
               \A e \in resp.data : "senha" \notin DOMAIN e
         [] route = "POST /funcionarios/login" ->
               /\ "senha" \notin DOMAIN resp.data
               /\ "senha" \notin DOMAIN resp.data.user
         [] route = "PUT /funcionarios/:idFuncionario" -> "senha" \notin DOMAIN resp.data
         [] route \in {"POST /funcionarios", "DELETE /funcionarios/:idFuncionario"} ->
               Len(resp.data) = 0
         [] OTHER -> TRUE

\* C30: the server listens, and handles a request, only when init() has
\* completed without throwing, having registered the JSON and static
\* middlewares, called connect() on the store, and registered the
\* pre-routing middleware, the Role routes, the Employee routes and last
\* the error responder, in that order; once init() has thrown the server
\* does not listen.
C30_ListenAfterInit ==
    /\ boot.listening
          => /\ ~boot.threw
             /\ boot.stack = <<"express.json", "express.static", "MysqlDatabase.connect",
                               "beforeRouting", "/api/v1/cargos", "/api/v1/funcionarios",
                               "errorHandler">>
    /\ boot.threw => ~boot.listening
    /\ route # "none" => boot.listening

C30_Witness ==
    /\ boot.listening
    /\ boot.done = Len(InitSteps)
    /\ route = "GET /cargos"
    /\ resp.status = 200

====
